---------------------------- MODULE Spec2Model ----------------------------
(***************************************************************************)
(* A model of the 128-bit integer types U128 and I128 of go-num.          *)
(*                                                                         *)
(* A U128 or I128 is a record [hi, lo] of two machine words, as in the    *)
(* source.  TLC's integers are 32 bits wide, so the machine word is       *)
(* modelled with LimbBits = 2*HalfBits bits instead of 64, and every      *)
(* literal of the source that is derived from the word size is written    *)
(* in terms of it:                                                         *)
(*      64 -> LimbBits         32 -> HalfBits        128 -> 2*LimbBits     *)
(*      63 -> LimbBits - 1    127 -> 2*LimbBits - 1                        *)
(*      1 << 32 -> b           0xffffffff -> halfMask                      *)
(*      maxUint64 -> 2^LimbBits - 1    signBit -> 2^(LimbBits - 1)         *)
(*      divAlgoLeading0Spill = 16 (a quarter of the word) -> LimbBits/4    *)
(* Every operation is translated statement by statement, each unsigned    *)
(* word operation reduced modulo 2^LimbBits as the Go operation is        *)
(* reduced modulo 2^64.                                                    *)
(***************************************************************************)
EXTENDS Integers, Naturals, Sequences, FiniteSets, TLC

VARIABLES
    a,        \* the receiver of the operation (a bit pattern [hi, lo])
    by,       \* the argument of the operation (a bit pattern [hi, lo])
    op,       \* the operation that has run, "none" before any has
    outcome,  \* "none" before the call, then "returned" or "panic"
    q,        \* the (first) value returned
    r,        \* the second value returned (the remainder, a flag, an error)
    args      \* the arguments that are not U128 or I128: ints, texts, buffers

vars == <<a, by, op, outcome, q, r, args>>

---------------------------------------------------------------------------
(* The machine word *)

\* Half of the bits of a machine word (32 in the source).
HalfBits == 2

LimbBits == 2 * HalfBits

\* 1 << 64: unsigned word arithmetic is reduced modulo Wrap.
Wrap == 2^LimbBits

maxUint64 == Wrap - 1

signBit == 2^(LimbBits - 1)

\* x << n and x >> n on a word: Go shifts out every bit when n >= 64.
Shl(x, n) == IF n >= LimbBits THEN 0 ELSE (x * 2^n) % Wrap

Shr(x, n) == IF n >= LimbBits THEN 0 ELSE x \div 2^n

RECURSIVE BitOr(_, _)
BitOr(x, y) ==
    IF x = 0 THEN y
    ELSE IF y = 0 THEN x
    ELSE (IF x % 2 = 1 \/ y % 2 = 1 THEN 1 ELSE 0) + 2 * BitOr(x \div 2, y \div 2)

RECURSIVE BitAnd(_, _)
BitAnd(x, y) ==
    IF x = 0 \/ y = 0 THEN 0
    ELSE (IF x % 2 = 1 /\ y % 2 = 1 THEN 1 ELSE 0) + 2 * BitAnd(x \div 2, y \div 2)

\* ^x on a word
BitNot(x) == maxUint64 - x

\* math/bits: Add64, Sub64, Mul64, LeadingZeros64, TrailingZeros64
Add64(x, y, carry) ==
    [sum |-> (x + y + carry) % Wrap, carryOut |-> (x + y + carry) \div Wrap]

Sub64(x, y, borrow) ==
    [diff |-> (x - y - borrow) % Wrap,
     borrowOut |-> IF x - y - borrow < 0 THEN 1 ELSE 0]

Mul64(x, y) == [hi |-> (x * y) \div Wrap, lo |-> (x * y) % Wrap]

RECURSIVE Len64(_)
Len64(x) == IF x = 0 THEN 0 ELSE 1 + Len64(x \div 2)

LeadingZeros64(x) == LimbBits - Len64(x)

RECURSIVE TrailingZeros64(_)
TrailingZeros64(x) ==
    IF x = 0 THEN LimbBits
    ELSE IF x % 2 = 1 THEN 0 ELSE 1 + TrailingZeros64(x \div 2)

\* x + y, x - y and x * y on words
WAdd(x, y) == (x + y) % Wrap

WSub(x, y) == (x - y) % Wrap

WMul(x, y) == (x * y) % Wrap

\* int(x) of a uint: the same bits read as two's complement
AsInt(x) == IF x >= signBit THEN x - Wrap ELSE x

---------------------------------------------------------------------------
(* U128 *)

U128FromRaw(hi, lo) == [hi |-> hi, lo |-> lo]

zeroU128 == U128FromRaw(0, 0)

MaxU128 == U128FromRaw(maxUint64, maxUint64)

U128From64(v) == U128FromRaw(0, v)

U128_Inc(u) ==
    LET s == Add64(u.lo, 1, 0)
    IN  [hi |-> WAdd(u.hi, s.carryOut), lo |-> s.sum]

U128_Dec(u) ==
    LET s == Sub64(u.lo, 1, 0)
    IN  [hi |-> WSub(u.hi, s.borrowOut), lo |-> s.diff]

\* U128.Add with the carry out of the low limb dropped.
U128_AddNoCarry(u, n) ==
    [hi |-> Add64(u.hi, n.hi, 0).sum, lo |-> Add64(u.lo, n.lo, 0).sum]

U128_Add(u, n) ==
    LET s == Add64(u.lo, n.lo, 0)
    IN  [hi |-> Add64(u.hi, n.hi, s.carryOut).sum, lo |-> s.sum]

U128_Sub(u, n) ==
    LET s == Sub64(u.lo, n.lo, 0)
    IN  [hi |-> Sub64(u.hi, n.hi, s.borrowOut).diff, lo |-> s.diff]

U128_Cmp(u, n) ==
    IF u.hi = n.hi
    THEN IF u.lo > n.lo THEN 1 ELSE IF u.lo < n.lo THEN -1 ELSE 0
    ELSE IF u.hi > n.hi THEN 1 ELSE IF u.hi < n.hi THEN -1 ELSE 0

U128_And(u, n) == [hi |-> BitAnd(u.hi, n.hi), lo |-> BitAnd(u.lo, n.lo)]

\* U128.Lsh carrying the bits shifted out of hi around into lo: a rotation.
U128_LshCarryAround(u, n) ==
    IF n = 0 THEN u
    ELSE IF n > LimbBits THEN [hi |-> Shl(u.lo, n - LimbBits), lo |-> 0]
    ELSE IF n < LimbBits
         THEN [hi |-> BitOr(Shl(u.hi, n), Shr(u.lo, LimbBits - n)),
               lo |-> BitOr(Shl(u.lo, n), Shr(u.hi, LimbBits - n))]
    ELSE [hi |-> u.lo, lo |-> 0]

\* U128.Lsh without the bits of the low limb that cross into the high limb.
U128_LshNoCross(u, n) ==
    IF n = 0 THEN u
    ELSE IF n > LimbBits THEN [hi |-> Shl(u.lo, n - LimbBits), lo |-> 0]
    ELSE IF n < LimbBits THEN [hi |-> Shl(u.hi, n), lo |-> Shl(u.lo, n)]
    ELSE [hi |-> u.lo, lo |-> 0]

U128_Lsh(u, n) ==
    IF n = 0 THEN u
    ELSE IF n > LimbBits THEN [hi |-> Shl(u.lo, n - LimbBits), lo |-> 0]
    ELSE IF n < LimbBits
         THEN [hi |-> BitOr(Shl(u.hi, n), Shr(u.lo, LimbBits - n)),
               lo |-> Shl(u.lo, n)]
    ELSE [hi |-> u.lo, lo |-> 0]

U128_Rsh(u, n) ==
    IF n = 0 THEN u
    ELSE IF n > LimbBits THEN [hi |-> 0, lo |-> Shr(u.hi, n - LimbBits)]
    ELSE IF n < LimbBits
         THEN [hi |-> Shr(u.hi, n),
               lo |-> BitOr(Shr(u.lo, n), Shl(u.hi, LimbBits - n))]
    ELSE [hi |-> 0, lo |-> u.hi]

\* U128.Mul with the cross term u.lo*n.hi left out.
U128_MulNoCross(u, n) ==
    LET m == Mul64(u.lo, n.lo)
    IN  [hi |-> WAdd(m.hi, WMul(u.hi, n.lo)), lo |-> m.lo]

U128_Mul(u, n) ==
    LET m == Mul64(u.lo, n.lo)
    IN  [hi |-> WAdd(m.hi, WAdd(WMul(u.hi, n.lo), WMul(u.lo, n.hi))), lo |-> m.lo]

U128_LeadingZeros(u) ==
    IF u.hi = 0 THEN LeadingZeros64(u.lo) + LimbBits ELSE LeadingZeros64(u.hi)

U128_TrailingZeros(u) ==
    IF u.lo = 0 THEN TrailingZeros64(u.hi) + LimbBits ELSE TrailingZeros64(u.lo)

---------------------------------------------------------------------------
(* Division of U128: the helper routines *)

\* var b uint64 = 1 << 32
b == 2^HalfBits

\* 0xffffffff
halfMask == b - 1

\* The correction made once, with no second look at the digit.
againOnce(qd, rhat, left, right, vn1, vn0, un, n) ==
    IF qd >= b \/ left > right
    THEN [q |-> WSub(qd, 1), rhat |-> WAdd(rhat, vn1), n |-> n + 1]
    ELSE [q |-> qd, rhat |-> rhat, n |-> n]

\* The quotient-digit correction loop at the labels again1 and again2 of
\* quo128by64 and quorem128by64; n counts the decrements of the digit.
RECURSIVE again(_, _, _, _, _, _, _, _)
again(qd, rhat, left, right, vn1, vn0, un, n) ==
    IF qd >= b \/ left > right
    THEN LET qd2   == WSub(qd, 1)
             rhat2 == WAdd(rhat, vn1)
         IN  IF rhat2 < b
             THEN again(qd2, rhat2, WSub(left, vn0),
                        BitOr(Shl(rhat2, HalfBits), un), vn1, vn0, un, n + 1)
             ELSE [q |-> qd2, rhat |-> rhat2, n |-> n + 1]
    ELSE [q |-> qd, rhat |-> rhat, n |-> n]

\* Hacker's delight 9-4, divlu, as quo128by64 and quorem128by64 write it, in
\* the order of its statements.  First the normalization: the shifted divisor
\* vs with its digits vn1, vn0, and the shifted dividend un32, un1, un0.
divluNormalize(u1, u0, v, vLeading0) ==
    [vs   |-> Shl(v, vLeading0),
     vn1  |-> Shr(Shl(v, vLeading0), HalfBits),
     vn0  |-> BitAnd(Shl(v, vLeading0), halfMask),
     un32 |-> IF vLeading0 > 0
              THEN BitOr(Shl(u1, vLeading0), Shr(u0, LimbBits - vLeading0))
              ELSE u1,
     un1  |-> Shr(IF vLeading0 > 0 THEN Shl(u0, vLeading0) ELSE u0, HalfBits),
     un0  |-> BitAnd(IF vLeading0 > 0 THEN Shl(u0, vLeading0) ELSE u0, halfMask)]

\* A quotient digit: the estimate num / vn1 and its correction loop.  The
\* loop's first right-hand side is (rhat << 32) + un1 for the first digit of
\* quorem128by64 (plus) and (rhat << 32) | un everywhere else.
divluDigit(num, un, vn1, vn0, plus) ==
    again(num \div vn1, num % vn1, WMul(num \div vn1, vn0),
          IF plus
          THEN WAdd(Shl(num % vn1, HalfBits), un)
          ELSE BitOr(Shl(num % vn1, HalfBits), un),
          vn1, vn0, un, 0)

\* un21 = (un32 << 32) + (un1 - (q1 * v))
divluUn21(nz, c1) == WAdd(Shl(nz.un32, HalfBits), WSub(nz.un1, WMul(c1.q, nz.vs)))

\* return (q1 << 32) | q0, ((un21 << 32) + (un0 - (q0 * v))) >> vLeading0
divluReturn(nz, c1, un21, c2, vLeading0) ==
    [panic |-> FALSE,
     q     |-> BitOr(Shl(c1.q, HalfBits), c2.q),
     r     |-> Shr(WAdd(Shl(un21, HalfBits), WSub(nz.un0, WMul(c2.q, nz.vs))),
                   vLeading0),
     n1    |-> c1.n,
     n2    |-> c2.n]

\* The second digit, from the first.
divluSecond(nz, c1, vLeading0) ==
    divluReturn(nz, c1, divluUn21(nz, c1),
                divluDigit(divluUn21(nz, c1), nz.un0, nz.vn1, nz.vn0, FALSE),
                vLeading0)

\* The first digit.  The integer division by vn1 panics when vn1 is zero.
divlu(nz, vLeading0, plus) ==
    IF nz.vn1 = 0
    THEN [panic |-> TRUE, q |-> 0, r |-> 0, n1 |-> 0, n2 |-> 0]
    ELSE divluSecond(nz, divluDigit(nz.un32, nz.un1, nz.vn1, nz.vn0, plus),
                     vLeading0)

\* return (q1 << 32) | q0 of quo128by64, which computes no remainder.
divluQuotient(x) == [panic |-> x.panic, q |-> x.q, n1 |-> x.n1, n2 |-> x.n2]

\* The quotient of u1*2^64 + u0 by v; n1 and n2 count the decrements of the two
\* digits.
quo128by64(u1, u0, v, vLeading0) ==
    divluQuotient(divlu(divluNormalize(u1, u0, v, vLeading0), vLeading0, FALSE))

\* The quotient and the remainder of u1*2^64 + u0 by v.
quorem128by64(u1, u0, v, vLeading0) ==
    divlu(divluNormalize(u1, u0, v, vLeading0), vLeading0, TRUE)

\* A division's result: the quotient and the remainder, or a panic.
Returned(qq, rr) == [panic |-> FALSE, q |-> qq, r |-> rr]

Panicked == [panic |-> TRUE, q |-> zeroU128, r |-> zeroU128]

\* quorem128by128, divisor of one limb: q.hi is given, (q.lo, r.lo) come from
\* quorem128by64.
by128OneLimb(qhi, d) ==
    IF d.panic THEN Panicked
    ELSE Returned(U128FromRaw(qhi, d.q), U128FromRaw(0, d.r))

\* quorem128by128, divisor of two limbs: the estimate q1 from the quotient
\* q1.lo of quo128by64, shifted back and decremented unless zero.
by128Estimate(d, vHiLeading0) ==
    IF BitOr(U128_Rsh(U128FromRaw(0, d.q), (LimbBits - 1) - vHiLeading0).hi,
             U128_Rsh(U128FromRaw(0, d.q), (LimbBits - 1) - vHiLeading0).lo) # 0
    THEN U128_Dec(U128_Rsh(U128FromRaw(0, d.q), (LimbBits - 1) - vHiLeading0))
    ELSE U128_Rsh(U128FromRaw(0, d.q), (LimbBits - 1) - vHiLeading0)

\* by128Correct with the correction of a quotient one too small left out.
by128NoCorrection(q1, r1, v) == Returned(q1, r1)

\* if r.Cmp(v) >= 0 { q = q.Inc(); r = r.Sub(v) }
by128Correct(q1, r1, v) ==
    IF U128_Cmp(r1, v) >= 0
    THEN Returned(U128_Inc(q1), U128_Sub(r1, v))
    ELSE Returned(q1, r1)

\* q = q1; q1 = q1.Mul(v); r = m.Sub(q1), then the correction
by128Remainder(m, v, q1) == by128Correct(q1, U128_Sub(m, U128_Mul(q1, v)), v)

by128TwoLimbs(m, v, d, vHiLeading0) ==
    IF d.panic THEN Panicked
    ELSE by128Remainder(m, v, by128Estimate(d, vHiLeading0))

\* The normalized-divisor algorithm.
quorem128by128(m, v, vHiLeading0, vLoLeading0) ==
    IF v.hi = 0
    THEN IF m.hi < v.lo
         THEN by128OneLimb(0, quorem128by64(m.hi, m.lo, v.lo, vLoLeading0))
         ELSE IF v.lo = 0
              THEN Panicked
              ELSE by128OneLimb(m.hi \div v.lo,
                                quorem128by64(m.hi % v.lo, m.lo, v.lo, vLoLeading0))
    ELSE by128TwoLimbs(m, v,
                       quo128by64(U128_Rsh(m, 1).hi, U128_Rsh(m, 1).lo,
                                  U128_Lsh(v, vHiLeading0).hi, vLoLeading0),
                       vHiLeading0)

\* The loop of quorem128bin comparing u > by where the code compares u >= by.
RECURSIVE quorem128binLoopStrict(_, _, _, _, _)
quorem128binLoopStrict(qq, u, d, shift, n) ==
    LET q1 == [hi |-> BitOr(Shl(qq.hi, 1), Shr(qq.lo, LimbBits - 1)),
               lo |-> Shl(qq.lo, 1)]
        ge == u.hi > d.hi \/ (u.hi = d.hi /\ u.lo > d.lo)
        u2 == IF ge THEN U128_Sub(u, d) ELSE u
        q2 == IF ge THEN [q1 EXCEPT !.lo = BitOr(@, 1)] ELSE q1
        d2 == [hi |-> Shr(d.hi, 1),
               lo |-> BitOr(Shr(d.lo, 1), Shl(d.hi, LimbBits - 1))]
    IN  IF shift <= 0
        THEN [q |-> q2, r |-> u2, n |-> n + 1]
        ELSE quorem128binLoopStrict(q2, u2, d2, shift - 1, n + 1)

\* The loop of quorem128bin; n counts its iterations.
RECURSIVE quorem128binLoop(_, _, _, _, _)
quorem128binLoop(qq, u, d, shift, n) ==
    LET q1 == [hi |-> BitOr(Shl(qq.hi, 1), Shr(qq.lo, LimbBits - 1)),
               lo |-> Shl(qq.lo, 1)]
        ge == u.hi > d.hi \/ (u.hi = d.hi /\ u.lo >= d.lo)
        u2 == IF ge THEN U128_Sub(u, d) ELSE u
        q2 == IF ge THEN [q1 EXCEPT !.lo = BitOr(@, 1)] ELSE q1
        d2 == [hi |-> Shr(d.hi, 1),
               lo |-> BitOr(Shr(d.lo, 1), Shl(d.hi, LimbBits - 1))]
    IN  IF shift <= 0
        THEN [q |-> q2, r |-> u2, n |-> n + 1]
        ELSE quorem128binLoop(q2, u2, d2, shift - 1, n + 1)

\* quorem128bin taking the shift as uLeading0 - byLeading0, the counts swapped.
quorem128binSwapped(u, d, uLeading0, byLeading0) ==
    LET shift == AsInt(WSub(uLeading0, byLeading0))
    IN  quorem128binLoop(zeroU128, u, U128_Lsh(d, shift % Wrap), shift, 0)

\* Binary long division, quotient and remainder.
quorem128bin(u, d, uLeading0, byLeading0) ==
    LET shift == AsInt(WSub(byLeading0, uLeading0))
    IN  quorem128binLoop(zeroU128, u, U128_Lsh(d, shift % Wrap), shift, 0)

\* The loop of quo128bin comparing u > by where the code compares u >= by.
RECURSIVE quo128binLoopStrict(_, _, _, _, _)
quo128binLoopStrict(qq, u, d, shift, n) ==
    LET q1 == [hi |-> BitOr(Shl(qq.hi, 1), Shr(qq.lo, LimbBits - 1)),
               lo |-> Shl(qq.lo, 1)]
        ge == u.hi > d.hi \/ (u.hi = d.hi /\ u.lo > d.lo)
        u2 == IF ge THEN U128_Sub(u, d) ELSE u
        q2 == IF ge THEN [q1 EXCEPT !.lo = BitOr(@, 1)] ELSE q1
        d2 == [hi |-> Shr(d.hi, 1),
               lo |-> BitOr(Shr(d.lo, 1), Shl(d.hi, LimbBits - 1))]
    IN  IF shift <= 0
        THEN [q |-> q2, n |-> n + 1]
        ELSE quo128binLoopStrict(q2, u2, d2, shift - 1, n + 1)

\* The loop of quo128bin; n counts its iterations.
RECURSIVE quo128binLoop(_, _, _, _, _)
quo128binLoop(qq, u, d, shift, n) ==
    LET q1 == [hi |-> BitOr(Shl(qq.hi, 1), Shr(qq.lo, LimbBits - 1)),
               lo |-> Shl(qq.lo, 1)]
        ge == u.hi > d.hi \/ (u.hi = d.hi /\ u.lo >= d.lo)
        u2 == IF ge THEN U128_Sub(u, d) ELSE u
        q2 == IF ge THEN [q1 EXCEPT !.lo = BitOr(@, 1)] ELSE q1
        d2 == [hi |-> Shr(d.hi, 1),
               lo |-> BitOr(Shr(d.lo, 1), Shl(d.hi, LimbBits - 1))]
    IN  IF shift <= 0
        THEN [q |-> q2, n |-> n + 1]
        ELSE quo128binLoop(q2, u2, d2, shift - 1, n + 1)

\* Binary long division, quotient only.
quo128bin(u, d, uLeading0, byLeading0) ==
    LET shift == AsInt(WSub(byLeading0, uLeading0))
    IN  quo128binLoop(zeroU128, u, U128_Lsh(d, shift % Wrap), shift, 0)

\* const divAlgoLeading0Spill = 16, a quarter of the 64-bit word
divAlgoLeading0Spill == LimbBits \div 4

\* The leading-zero counts U128.Quo and U128.QuoRem take of the divisor.
byLeadingZeros(d) ==
    IF d.hi = 0
    THEN [lo |-> LeadingZeros64(d.lo), hi |-> LimbBits,
          all |-> LeadingZeros64(d.lo) + LimbBits]
    ELSE [lo |-> 0, hi |-> LeadingZeros64(d.hi), all |-> LeadingZeros64(d.hi)]

\* Which algorithm U128.Quo and U128.QuoRem choose.
spills(byLeading0, uLeading0) == WSub(byLeading0, uLeading0) > divAlgoLeading0Spill

\* The zero test with only the low limb looked at.
divisionByZeroLoOnly(d) == d.lo = 0

\* The test that makes U128.Quo and U128.QuoRem panic "division by zero".
divisionByZero(d) == d.lo = 0 /\ d.hi = 0

\* (q, r) as quorem128bin returns it, the iteration count dropped.
binResult(x) == Returned(x.q, x.r)

\* q, _ = ...: the quotient of a (q, r) result.
quoOnly(x) == [panic |-> x.panic, q |-> x.q]

\* _, r = ...: the remainder of a (q, r) result.
remOnly(x) == [panic |-> x.panic, r |-> x.r]

U128_QuoRem(u, d) ==
    LET lz          == byLeadingZeros(d)
        byTrailing0 == U128_TrailingZeros(d)
        cmp         == U128_Cmp(u, d)
        uLeading0   == U128_LeadingZeros(u)
    IN  IF divisionByZero(d) THEN Panicked
        ELSE IF BitOr(u.hi, d.hi) = 0
             THEN Returned(U128FromRaw(0, u.lo \div d.lo), U128FromRaw(0, u.lo % d.lo))
        ELSE IF lz.all = 2 * LimbBits - 1 THEN Returned(u, zeroU128)
        ELSE IF lz.all + byTrailing0 = 2 * LimbBits - 1
             THEN Returned(U128_Rsh(u, byTrailing0), U128_And(U128_Dec(d), u))
        ELSE IF cmp < 0 THEN Returned(zeroU128, u)
        ELSE IF cmp = 0 THEN Returned(U128FromRaw(0, 1), zeroU128)
        ELSE IF spills(lz.all, uLeading0)
             THEN quorem128by128(u, d, lz.hi, lz.lo)
             ELSE binResult(quorem128bin(u, d, uLeading0, lz.all))

U128_Quo(u, d) ==
    LET lz          == byLeadingZeros(d)
        byTrailing0 == U128_TrailingZeros(d)
        cmp         == U128_Cmp(u, d)
        uLeading0   == U128_LeadingZeros(u)
    IN  IF divisionByZero(d) THEN [panic |-> TRUE, q |-> zeroU128]
        ELSE IF BitOr(u.hi, d.hi) = 0
             THEN [panic |-> FALSE, q |-> U128FromRaw(0, u.lo \div d.lo)]
        ELSE IF lz.all = 2 * LimbBits - 1 THEN [panic |-> FALSE, q |-> u]
        ELSE IF lz.all + byTrailing0 = 2 * LimbBits - 1
             THEN [panic |-> FALSE, q |-> U128_Rsh(u, byTrailing0)]
        ELSE IF cmp < 0 THEN [panic |-> FALSE, q |-> zeroU128]
        ELSE IF cmp = 0 THEN [panic |-> FALSE, q |-> U128FromRaw(0, 1)]
        ELSE IF spills(lz.all, uLeading0)
             THEN quoOnly(quorem128by128(u, d, lz.hi, lz.lo))
             ELSE [panic |-> FALSE, q |-> quo128bin(u, d, uLeading0, lz.all).q]

U128_Rem(u, d) == remOnly(U128_QuoRem(u, d))

---------------------------------------------------------------------------
(* I128 *)

I128FromRaw(hi, lo) == [hi |-> hi, lo |-> lo]

zeroI128 == I128FromRaw(0, 0)

MaxI128 == I128FromRaw(signBit - 1, maxUint64)

MinI128 == I128FromRaw(signBit, 0)

\* math.MinInt64
minInt64 == -signBit

\* I128From64 without the sign extension into the high limb.
I128From64NoSignExtend(v) == I128FromRaw(0, v % Wrap)

\* v is an int64, given as its mathematical value.
I128From64(v) == I128FromRaw(IF v < 0 THEN maxUint64 ELSE 0, v % Wrap)

\* Direct casts between the two types: the same limbs.
I128_AsU128(i) == U128FromRaw(i.hi, i.lo)

U128_AsI128(u) == I128FromRaw(u.hi, u.lo)

\* I128.LessThan comparing the limbs as unsigned, the sign bits ignored.
I128_LessThanUnsigned(i, n) == i.hi < n.hi \/ (i.hi = n.hi /\ i.lo < n.lo)

I128_LessThan(i, n) ==
    IF BitAnd(i.hi, signBit) = BitAnd(n.hi, signBit)
    THEN i.hi < n.hi \/ (i.hi = n.hi /\ i.lo < n.lo)
    ELSE BitAnd(i.hi, signBit) # 0

\* I128.Neg saturating at MaxI128 instead of wrapping to MinI128.
I128_NegSaturating(i) ==
    LET v == IF BitAnd(i.hi, signBit) # 0
             THEN [hi |-> BitNot(i.hi), lo |-> BitNot(WSub(i.lo, 1))]
             ELSE [hi |-> BitNot(i.hi), lo |-> WAdd(BitNot(i.lo), 1)]
    IN  IF i.hi = 0 /\ i.lo = 0 THEN zeroI128
        ELSE IF i = MinI128 THEN MaxI128
        ELSE IF v.lo = 0 THEN [v EXCEPT !.hi = WAdd(@, 1)]
        ELSE v

I128_Neg(i) ==
    LET v == IF BitAnd(i.hi, signBit) # 0
             THEN [hi |-> BitNot(i.hi), lo |-> BitNot(WSub(i.lo, 1))]
             ELSE [hi |-> BitNot(i.hi), lo |-> WAdd(BitNot(i.lo), 1)]
    IN  IF i.hi = 0 /\ i.lo = 0 THEN zeroI128
        ELSE IF i = MinI128 THEN i
        ELSE IF v.lo = 0 THEN [v EXCEPT !.hi = WAdd(@, 1)]
        ELSE v

\* I128.QuoRem giving the remainder the sign of the quotient.
I128_QuoRemSignOfQuotient(i, d) ==
    LET ineg  == I128_LessThan(i, zeroI128)
        dneg  == I128_LessThan(d, zeroI128)
        rSign == IF ineg THEN -1 ELSE 1
        qSign == IF dneg THEN -rSign ELSE rSign
        i1    == IF ineg THEN I128_Neg(i) ELSE i
        d1    == IF dneg THEN I128_Neg(d) ELSE d
        x     == U128_QuoRem(I128_AsU128(i1), I128_AsU128(d1))
        q1    == U128_AsI128(x.q)
        r1    == U128_AsI128(x.r)
    IN  IF x.panic THEN Panicked
        ELSE Returned(IF qSign < 0 THEN I128_Neg(q1) ELSE q1,
                      IF qSign < 0 THEN I128_Neg(r1) ELSE r1)

I128_QuoRem(i, d) ==
    LET ineg  == I128_LessThan(i, zeroI128)
        dneg  == I128_LessThan(d, zeroI128)
        rSign == IF ineg THEN -1 ELSE 1
        qSign == IF dneg THEN -rSign ELSE rSign
        i1    == IF ineg THEN I128_Neg(i) ELSE i
        d1    == IF dneg THEN I128_Neg(d) ELSE d
        x     == U128_QuoRem(I128_AsU128(i1), I128_AsU128(d1))
        q1    == U128_AsI128(x.q)
        r1    == U128_AsI128(x.r)
    IN  IF x.panic THEN Panicked
        ELSE Returned(IF qSign < 0 THEN I128_Neg(q1) ELSE q1,
                      IF rSign < 0 THEN I128_Neg(r1) ELSE r1)

I128_Quo(i, d) ==
    LET ineg  == I128_LessThan(i, zeroI128)
        dneg  == I128_LessThan(d, zeroI128)
        qSign == IF dneg THEN -(IF ineg THEN -1 ELSE 1) ELSE (IF ineg THEN -1 ELSE 1)
        i1    == IF ineg THEN I128_Neg(i) ELSE i
        d1    == IF dneg THEN I128_Neg(d) ELSE d
        x     == U128_Quo(I128_AsU128(i1), I128_AsU128(d1))
        q1    == U128_AsI128(x.q)
    IN  IF x.panic THEN [panic |-> TRUE, q |-> zeroI128]
        ELSE [panic |-> FALSE, q |-> IF qSign < 0 THEN I128_Neg(q1) ELSE q1]

I128_Rem(i, d) == remOnly(I128_QuoRem(i, d))

I128_Inc(i) ==
    LET lo == WAdd(i.lo, 1)
    IN  [hi |-> IF i.lo > lo THEN WAdd(i.hi, 1) ELSE i.hi, lo |-> lo]

I128_Dec(i) ==
    LET lo == WSub(i.lo, 1)
    IN  [hi |-> IF i.lo < lo THEN WSub(i.hi, 1) ELSE i.hi, lo |-> lo]

I128_Add(i, n) ==
    LET s == Add64(i.lo, n.lo, 0)
    IN  [hi |-> Add64(i.hi, n.hi, s.carryOut).sum, lo |-> s.sum]

I128_Sub(i, n) ==
    LET s == Sub64(i.lo, n.lo, 0)
    IN  [hi |-> Sub64(i.hi, n.hi, s.borrowOut).diff, lo |-> s.diff]

I128_Mul(i, n) ==
    LET m == Mul64(i.lo, n.lo)
    IN  [hi |-> WAdd(m.hi, WAdd(WMul(i.hi, n.lo), WMul(i.lo, n.hi))), lo |-> m.lo]

\* The negation of Abs and AbsU128 without the carry into the high limb.
absNegateNoCarry(i) == [hi |-> BitNot(i.hi), lo |-> BitNot(WSub(i.lo, 1))]

\* The negation both Abs and AbsU128 apply to a negative i.
absNegate(i) ==
    LET lo == BitNot(WSub(i.lo, 1))
    IN  [hi |-> IF lo = 0 THEN WAdd(BitNot(i.hi), 1) ELSE BitNot(i.hi), lo |-> lo]

I128_Abs(i) == IF BitAnd(i.hi, signBit) # 0 THEN absNegate(i) ELSE i

minI128AsU128 == U128FromRaw(signBit, 0)

I128_AbsU128(i) ==
    IF i = MinI128 THEN minI128AsU128
    ELSE IF BitAnd(i.hi, signBit) # 0 THEN I128_AsU128(absNegate(i))
    ELSE I128_AsU128(i)

U128_Not(u) == [hi |-> BitNot(u.hi), lo |-> BitNot(u.lo)]

---------------------------------------------------------------------------
(* The values the limbs stand for *)

\* hi*2^64 + lo
U128Value(u) == u.hi * Wrap + u.lo

\* The same limbs read as two's complement.
I128Value(i) == IF i.hi >= signBit THEN U128Value(i) - Wrap * Wrap ELSE U128Value(i)

\* The limbs the operations are run on: every word while the word is small,
\* else the words at the edges of the carries, of the half-word digits and
\* of the sign.
Limbs ==
    IF HalfBits <= 2
    THEN 0 .. maxUint64
    ELSE {0, 1, 2, 3, b - 1, b, b + 1, signBit - 1, signBit, signBit + 1,
          maxUint64 - 2, maxUint64 - 1, maxUint64}

Values == [hi : Limbs, lo : Limbs]

---------------------------------------------------------------------------
(* Division: every division routine applied to every pair of operands *)

Init ==
    /\ a \in Values
    /\ by \in Values
    /\ op = "none"
    /\ outcome = "none"
    /\ q = zeroU128
    /\ r = zeroU128
    /\ args = <<>>

\* A call of a routine that returns (q, r) or panics.
Call2(name, x) ==
    /\ op = "none"
    /\ op' = name
    /\ outcome' = IF x.panic THEN "panic" ELSE "returned"
    /\ q' = IF x.panic THEN q ELSE x.q
    /\ r' = IF x.panic THEN r ELSE x.r
    /\ UNCHANGED <<a, by, args>>

\* A call of a routine that returns one value or panics.
Call1(name, panic, x) ==
    /\ op = "none"
    /\ op' = name
    /\ outcome' = IF panic THEN "panic" ELSE "returned"
    /\ q' = IF panic THEN q ELSE x
    /\ UNCHANGED <<a, by, r, args>>

\* Every division routine, and the two algorithms each called as U128.QuoRem
\* calls it: a > by > 0 and the leading-zero counts those of the operands.
NextDiv ==
    \/ Call2("U128.QuoRem", U128_QuoRem(a, by))
    \/ Call1("U128.Quo", U128_Quo(a, by).panic, U128_Quo(a, by).q)
    \/ Call1("U128.Rem", U128_Rem(a, by).panic, U128_Rem(a, by).r)
    \/ Call2("I128.QuoRem", I128_QuoRem(a, by))
    \/ Call1("I128.Quo", I128_Quo(a, by).panic, I128_Quo(a, by).q)
    \/ Call1("I128.Rem", I128_Rem(a, by).panic, I128_Rem(a, by).r)
    \/ /\ U128_Cmp(a, by) > 0
       /\ by # zeroU128
       /\ Call2("quorem128by128",
                quorem128by128(a, by, byLeadingZeros(by).hi, byLeadingZeros(by).lo))
    \/ /\ U128_Cmp(a, by) > 0
       /\ by # zeroU128
       /\ Call2("quorem128bin",
                binResult(quorem128bin(a, by, U128_LeadingZeros(a),
                                       byLeadingZeros(by).all)))

SpecDiv == Init /\ [][NextDiv]_vars

---------------------------------------------------------------------------
(* Arithmetic: every operation applied to every pair of operands *)

NextArith ==
    \/ Call1("U128.Add", FALSE, U128_Add(a, by))
    \/ Call1("U128.Sub", FALSE, U128_Sub(a, by))
    \/ Call1("U128.Inc", FALSE, U128_Inc(a))
    \/ Call1("U128.Dec", FALSE, U128_Dec(a))
    \/ Call1("U128.Mul", FALSE, U128_Mul(a, by))
    \/ Call1("I128.Add", FALSE, I128_Add(a, by))
    \/ Call1("I128.Sub", FALSE, I128_Sub(a, by))
    \/ Call1("I128.Inc", FALSE, I128_Inc(a))
    \/ Call1("I128.Dec", FALSE, I128_Dec(a))
    \/ Call1("I128.Mul", FALSE, I128_Mul(a, by))
    \/ Call1("I128.Neg", FALSE, I128_Neg(a))
    \/ Call1("I128.Abs", FALSE, I128_Abs(a))
    \/ Call1("I128.AbsU128", FALSE, I128_AbsU128(a))

SpecArith == Init /\ [][NextArith]_vars

---------------------------------------------------------------------------
(* The claims *)

\* The route U128.QuoRem takes for (u, d), d # 0.
QuoRemPath(u, d) ==
    IF BitOr(u.hi, d.hi) = 0 THEN "native"
    ELSE IF byLeadingZeros(d).all = 2 * LimbBits - 1 THEN "one"
    ELSE IF byLeadingZeros(d).all + U128_TrailingZeros(d) = 2 * LimbBits - 1 THEN "pow2"
    ELSE IF U128_Cmp(u, d) < 0 THEN "less"
    ELSE IF U128_Cmp(u, d) = 0 THEN "equal"
    ELSE IF spills(byLeadingZeros(d).all, U128_LeadingZeros(u)) THEN "by128"
    ELSE "bin"

Abs(x) == IF x < 0 THEN -x ELSE x

\* x / y of the exact integers, rounded toward zero
TQuo(x, y) ==
    IF (x < 0) = (y < 0) THEN Abs(x) \div Abs(y) ELSE -(Abs(x) \div Abs(y))

\* C1: for every U128 a and every by # 0, U128.QuoRem returns (q, r) with
\* a = by*q + r as exact integers and 0 <= r < by, on every dispatch path.
C1_QuoRemExact ==
    (op = "U128.QuoRem" /\ by # zeroU128) =>
        /\ outcome = "returned"
        /\ U128Value(a) = U128Value(by) * U128Value(q) + U128Value(r)
        /\ U128Value(r) < U128Value(by)
        /\ U128Value(q) = U128Value(a) \div U128Value(by)
        /\ U128Value(r) = U128Value(a) % U128Value(by)

\* C1 witness: QuoRem has run the normalized-divisor algorithm on a divisor of
\* two limbs that does not divide the dividend.
C1_Witness ==
    /\ op = "U128.QuoRem"
    /\ outcome = "returned"
    /\ by # zeroU128
    /\ QuoRemPath(a, by) = "by128"
    /\ by.hi # 0
    /\ r # zeroU128

\* C2: for every a > by > 0, quorem128by128 and quorem128bin return the same
\* (q, r).
C2_AlgorithmsAgree ==
    (op = "quorem128by128") =>
        LET x == quorem128bin(a, by, U128_LeadingZeros(a), byLeadingZeros(by).all)
        IN  outcome = "returned" /\ q = x.q /\ r = x.r

\* C2 witness: quorem128by128 has divided by a divisor of two limbs where
\* QuoRem would have chosen quorem128bin.
C2_Witness ==
    /\ op = "quorem128by128"
    /\ outcome = "returned"
    /\ by.hi # 0
    /\ QuoRemPath(a, by) = "bin"
    /\ r # zeroU128

\* C3: for every I128 a and by # 0 other than (MinI128, -1), I128.QuoRem returns
\* the quotient rounded toward zero and r = a - by*q, with |r| < |by| and r zero
\* or of the sign of a.
C3_I128QuoRemTruncates ==
    (/\ op = "I128.QuoRem"
     /\ by # zeroI128
     /\ ~(a = MinI128 /\ by = I128From64(-1))) =>
        /\ outcome = "returned"
        /\ I128Value(q) = TQuo(I128Value(a), I128Value(by))
        /\ I128Value(r) = I128Value(a) - I128Value(by) * I128Value(q)
        /\ Abs(I128Value(r)) < Abs(I128Value(by))
        /\ (I128Value(r) = 0 \/ (I128Value(r) < 0) = (I128Value(a) < 0))

\* C3 witness: a negative dividend other than MinI128 divided by a positive
\* divisor that leaves a remainder.
C3_Witness ==
    /\ op = "I128.QuoRem"
    /\ outcome = "returned"
    /\ I128Value(a) < 0
    /\ a # MinI128
    /\ I128Value(by) > 1
    /\ I128Value(r) < 0
    /\ I128Value(q) < 0

DivisionOps ==
    {"U128.QuoRem", "U128.Quo", "U128.Rem", "I128.QuoRem", "I128.Quo", "I128.Rem"}

\* C4: the six division methods panic, returning nothing, exactly when the
\* divisor is zero.
C4_PanicIffZeroDivisor ==
    (op \in DivisionOps) =>
        /\ (by = zeroU128) => (outcome = "panic" /\ q = zeroU128 /\ r = zeroU128)
        /\ (by # zeroU128) => outcome = "returned"

\* C4 witness: I128.Quo has panicked on a zero divisor and a non-zero dividend.
C4_Witness ==
    /\ op = "I128.Quo"
    /\ by = zeroI128
    /\ a # zeroI128
    /\ outcome = "panic"

\* 2^128
Wrap128 == Wrap * Wrap

\* x reduced modulo 2^128 into [-2^127, 2^127)
SWrap(x) == ((x + Wrap128 \div 2) % Wrap128) - Wrap128 \div 2

\* C5: Add, Sub, Inc and Dec on U128 and on I128 return the exact result
\* reduced modulo 2^128 (two's complement for I128) and never fault; so
\* MaxU128.Add(1) = 0, U128(0).Dec() = MaxU128, U128From64(MaxUint64).Add(1) =
\* {hi: 1, lo: 0} and MaxI128.Add(1) = MinI128.
C5_AddSubWrap ==
    /\ op = "U128.Add" => U128Value(q) = (U128Value(a) + U128Value(by)) % Wrap128
    /\ op = "U128.Sub" => U128Value(q) = (U128Value(a) - U128Value(by)) % Wrap128
    /\ op = "U128.Inc" => U128Value(q) = (U128Value(a) + 1) % Wrap128
    /\ op = "U128.Dec" => U128Value(q) = (U128Value(a) - 1) % Wrap128
    /\ op = "I128.Add" => I128Value(q) = SWrap(I128Value(a) + I128Value(by))
    /\ op = "I128.Sub" => I128Value(q) = SWrap(I128Value(a) - I128Value(by))
    /\ op = "I128.Inc" => I128Value(q) = SWrap(I128Value(a) + 1)
    /\ op = "I128.Dec" => I128Value(q) = SWrap(I128Value(a) - 1)
    /\ op \in {"U128.Add", "U128.Sub", "U128.Inc", "U128.Dec",
               "I128.Add", "I128.Sub", "I128.Inc", "I128.Dec"} => outcome = "returned"
    /\ (op = "U128.Add" /\ a = MaxU128 /\ by = U128From64(1)) => q = zeroU128
    /\ (op = "U128.Dec" /\ a = zeroU128) => q = MaxU128
    /\ (op = "U128.Add" /\ a = U128From64(maxUint64) /\ by = U128From64(1)) =>
            q = U128FromRaw(1, 0)
    /\ (op = "I128.Add" /\ a = MaxI128 /\ by = I128From64(1)) => q = MinI128

\* C5 witness: MaxI128.Add(1) has wrapped to MinI128.
C5_Witness ==
    /\ op = "I128.Add"
    /\ a = MaxI128
    /\ by = I128From64(1)
    /\ q = MinI128

\* C6: U128.Mul returns a*b mod 2^128, and I128.Mul returns the same limbs,
\* the exact signed product reduced modulo 2^128 into [-2^127, 2^127).
C6_MulWraps ==
    /\ op = "U128.Mul" =>
            /\ outcome = "returned"
            /\ U128Value(q) = (U128Value(a) * U128Value(by)) % Wrap128
    /\ op = "I128.Mul" =>
            /\ outcome = "returned"
            /\ q = U128_Mul(I128_AsU128(a), I128_AsU128(by))
            /\ I128Value(q) = SWrap(I128Value(a) * I128Value(by))

\* C6 witness: I128.Mul of two negative values of two significant limbs whose
\* exact product is out of range.
C6_Witness ==
    /\ op = "I128.Mul"
    /\ I128Value(a) < 0
    /\ I128Value(by) < 0
    /\ a.hi # maxUint64
    /\ by.hi # maxUint64
    /\ I128Value(a) * I128Value(by) >= Wrap128
    /\ q # zeroI128

\* C7: I128.Neg is the two's-complement negation (complement plus one modulo
\* 2^128): -a for a # MinI128, MinI128 for MinI128, and Neg(Neg(a)) = a.
C7_NegTwosComplement ==
    op = "I128.Neg" =>
        /\ outcome = "returned"
        /\ q = U128_Inc(U128_Not(I128_AsU128(a)))
        /\ a # MinI128 => I128Value(q) = -I128Value(a)
        /\ a = MinI128 => q = MinI128
        /\ I128_Neg(q) = a

\* C7 witness: Neg of a negative value other than MinI128 whose low limb is
\* zero, so that the increment carries into the high limb.
C7_Witness ==
    /\ op = "I128.Neg"
    /\ I128Value(a) < 0
    /\ a # MinI128
    /\ a.lo = 0
    /\ I128Value(q) = -I128Value(a)

\* C8: I128.Abs returns |a| for a # MinI128 and MinI128 for MinI128, and
\* I128.AbsU128 returns the magnitude |a| as a U128 for every a, 2^127 for
\* MinI128.
C8_AbsMagnitude ==
    /\ op = "I128.Abs" =>
            /\ outcome = "returned"
            /\ a # MinI128 => I128Value(q) = Abs(I128Value(a))
            /\ a = MinI128 => q = MinI128
    /\ op = "I128.AbsU128" =>
            /\ outcome = "returned"
            /\ U128Value(q) = Abs(I128Value(a))

\* C8 witness: AbsU128 of MinI128 has returned 2^127.
C8_Witness ==
    /\ op = "I128.AbsU128"
    /\ a = MinI128
    /\ U128Value(q) = Wrap128 \div 2

\* C9: MinI128.QuoRem(-1) returns (MinI128, 0) without faulting; Quo returns
\* MinI128 and Rem returns 0.
C9_MinByMinusOne ==
    (a = MinI128 /\ by = I128From64(-1)) =>
        /\ op = "I128.QuoRem" => (outcome = "returned" /\ q = MinI128 /\ r = zeroI128)
        /\ op = "I128.Quo" => (outcome = "returned" /\ q = MinI128)
        /\ op = "I128.Rem" => (outcome = "returned" /\ q = zeroI128)

\* C9 witness: QuoRem has returned from MinI128 divided by -1.
C9_Witness ==
    /\ op = "I128.QuoRem"
    /\ a = MinI128
    /\ by = I128From64(-1)
    /\ outcome = "returned"
    /\ q = MinI128

\* C10: for by # 0, U128.Quo and U128.Rem return the quotient and the remainder
\* of U128.QuoRem, and I128.Quo and I128.Rem those of I128.QuoRem.
C10_QuoAndRemAreHalves ==
    by # zeroU128 =>
        /\ op = "U128.Quo" => (outcome = "returned" /\ q = U128_QuoRem(a, by).q)
        /\ op = "U128.Rem" => (outcome = "returned" /\ q = U128_QuoRem(a, by).r)
        /\ op = "I128.Quo" => (outcome = "returned" /\ q = I128_QuoRem(a, by).q)
        /\ op = "I128.Rem" => (outcome = "returned" /\ q = I128_QuoRem(a, by).r)

\* C10 witness: U128.Quo has run its own binary routine, quo128bin, on a
\* divisor that does not divide the dividend.
C10_Witness ==
    /\ op = "U128.Quo"
    /\ outcome = "returned"
    /\ by # zeroU128
    /\ QuoRemPath(a, by) = "bin"
    /\ U128_QuoRem(a, by).r # zeroU128

---------------------------------------------------------------------------
(* Bits: every bit operation applied to every U128 and every argument *)

\* (panic, value) of U128.Bit
\* U128.Bit reading the limbs the wrong way round: hi for i < 64.
U128_BitLimbsSwapped(u, i) ==
    IF i < 0 \/ i >= 2 * LimbBits THEN [panic |-> TRUE, v |-> 0]
    ELSE IF i >= LimbBits
         THEN [panic |-> FALSE, v |-> BitAnd(Shr(u.lo, i - LimbBits), 1)]
    ELSE [panic |-> FALSE, v |-> BitAnd(Shr(u.hi, i), 1)]

U128_Bit(u, i) ==
    IF i < 0 \/ i >= 2 * LimbBits THEN [panic |-> TRUE, v |-> 0]
    ELSE IF i >= LimbBits
         THEN [panic |-> FALSE, v |-> BitAnd(Shr(u.hi, i - LimbBits), 1)]
    ELSE [panic |-> FALSE, v |-> BitAnd(Shr(u.lo, i), 1)]

\* U128.SetBit taking every bit value other than 0 for 1.
U128_SetBitNonZero(u, i, bv) ==
    IF i < 0 \/ i >= 2 * LimbBits THEN [panic |-> TRUE, v |-> u]
    ELSE IF bv = 0
         THEN IF i >= LimbBits
              THEN [panic |-> FALSE,
                    v |-> [u EXCEPT !.hi = BitAnd(@, BitNot(Shl(1, i - LimbBits)))]]
              ELSE [panic |-> FALSE,
                    v |-> [u EXCEPT !.lo = BitAnd(@, BitNot(Shl(1, i)))]]
    ELSE IF i >= LimbBits
         THEN [panic |-> FALSE, v |-> [u EXCEPT !.hi = BitOr(@, Shl(1, i - LimbBits))]]
         ELSE [panic |-> FALSE, v |-> [u EXCEPT !.lo = BitOr(@, Shl(1, i))]]

\* (panic, value) of U128.SetBit
U128_SetBit(u, i, bv) ==
    IF i < 0 \/ i >= 2 * LimbBits THEN [panic |-> TRUE, v |-> u]
    ELSE IF bv = 0
         THEN IF i >= LimbBits
              THEN [panic |-> FALSE,
                    v |-> [u EXCEPT !.hi = BitAnd(@, BitNot(Shl(1, i - LimbBits)))]]
              ELSE [panic |-> FALSE,
                    v |-> [u EXCEPT !.lo = BitAnd(@, BitNot(Shl(1, i)))]]
    ELSE IF bv = 1
         THEN IF i >= LimbBits
              THEN [panic |-> FALSE,
                    v |-> [u EXCEPT !.hi = BitOr(@, Shl(1, i - LimbBits))]]
              ELSE [panic |-> FALSE, v |-> [u EXCEPT !.lo = BitOr(@, Shl(1, i))]]
    ELSE [panic |-> TRUE, v |-> u]

\* bits.OnesCount64
RECURSIVE OnesCount64(_)
OnesCount64(x) == IF x = 0 THEN 0 ELSE (x % 2) + OnesCount64(x \div 2)

U128_OnesCount(u) ==
    IF u.hi > 0 THEN OnesCount64(u.hi) + LimbBits ELSE OnesCount64(u.lo)

\* uint(k) & 127: the low seven bits of the two's complement of the int k.
\* 127 is 2^7 - 1 and 2^7 divides 2^64, so they are k mod 128; the mask is
\* computed as written wherever the scaled 128 is a power of two as well.
rotateCount(k) ==
    IF 2 * LimbBits \in {2^n : n \in 0 .. LimbBits}
    THEN BitAnd(k % Wrap, 2 * LimbBits - 1)
    ELSE k % (2 * LimbBits)

rotateRight(u, s, l) ==
    [hi |-> BitOr(Shr(u.hi, s), Shl(u.lo, l)),
     lo |-> BitOr(Shr(u.lo, s), Shl(u.hi, l))]

\* rotateLeft with the bits that leave a limb dropped: a shift of each limb.
rotateLeftNoCarry(u, s, l) == [hi |-> Shl(u.hi, s), lo |-> Shl(u.lo, s)]

rotateLeft(u, s, l) ==
    [hi |-> BitOr(Shl(u.hi, s), Shr(u.lo, l)),
     lo |-> BitOr(Shl(u.lo, s), Shr(u.hi, l))]

U128_RotateLeft(u, k) ==
    IF rotateCount(k) > LimbBits
    THEN rotateRight(u, 2 * LimbBits - rotateCount(k),
                     LimbBits - (2 * LimbBits - rotateCount(k)))
    ELSE rotateLeft(u, rotateCount(k), LimbBits - rotateCount(k))

InitBits ==
    /\ a \in Values
    /\ by = zeroU128
    /\ op = "none"
    /\ outcome = "none"
    /\ q = zeroU128
    /\ r = zeroU128
    /\ args = <<>>

\* A call, with arguments xs, of a routine that returns one value or panics.
CallArgs(name, xs, panic, x) ==
    /\ op = "none"
    /\ op' = name
    /\ args' = xs
    /\ outcome' = IF panic THEN "panic" ELSE "returned"
    /\ q' = IF panic THEN q ELSE x
    /\ UNCHANGED <<a, by, r>>

\* The shift counts n (a uint): 0 to 128, and two counts beyond.
ShiftCounts == 0 .. 2 * LimbBits + 2

\* The bit indexes i (an int): 0 to 127, two below and two above.
BitIndexes == -2 .. 2 * LimbBits + 1

\* The bit values b (a uint): 0, 1 and two that are neither.
BitValues == 0 .. 3

\* The rotation counts k (an int): from below -128 to above 2 * 128.
RotateCounts == -(2 * LimbBits + 2) .. (4 * LimbBits + 2)

NextBits ==
    \/ /\ op = "none"
       /\ \E n \in ShiftCounts : CallArgs("U128.Lsh", <<n>>, FALSE, U128_Lsh(a, n))
    \/ /\ op = "none"
       /\ \E n \in ShiftCounts : CallArgs("U128.Rsh", <<n>>, FALSE, U128_Rsh(a, n))
    \/ /\ op = "none"
       /\ \E i \in BitIndexes :
             CallArgs("U128.Bit", <<i>>, U128_Bit(a, i).panic, U128_Bit(a, i).v)
    \/ /\ op = "none"
       /\ \E i \in BitIndexes, bv \in BitValues :
             CallArgs("U128.SetBit", <<i, bv>>,
                      U128_SetBit(a, i, bv).panic, U128_SetBit(a, i, bv).v)
    \/ /\ op = "none"
       /\ CallArgs("U128.OnesCount", <<>>, FALSE, U128_OnesCount(a))
    \/ /\ op = "none"
       /\ \E k \in RotateCounts :
             CallArgs("U128.RotateLeft", <<k>>, FALSE, U128_RotateLeft(a, k))

SpecBits == InitBits /\ [][NextBits]_vars

\* The U128 of value x, 0 <= x < 2^128.
U128OfValue(x) == U128FromRaw(x \div Wrap, x % Wrap)

\* C11: for every U128 a and every n in [0, 128], a.Lsh(n) = a*2^n mod 2^128
\* and a.Rsh(n) = floor(a / 2^n); a.Lsh(n).Rsh(n) is a with its top n bits
\* cleared, a AND (2^(128-n) - 1); a.Lsh(128) = 0 and a.Lsh(0) = a.
C11_ShiftLaws ==
    (op \in {"U128.Lsh", "U128.Rsh"} /\ args[1] <= 2 * LimbBits) =>
        /\ outcome = "returned"
        /\ op = "U128.Lsh" =>
              /\ U128Value(q) = (U128Value(a) * 2^args[1]) % Wrap128
              /\ U128_Rsh(q, args[1]) =
                     U128_And(a, U128OfValue(2^(2 * LimbBits - args[1]) - 1))
              /\ args[1] = 2 * LimbBits => q = zeroU128
              /\ args[1] = 0 => q = a
        /\ op = "U128.Rsh" => U128Value(q) = U128Value(a) \div 2^args[1]

\* C11 witness: Lsh by a count below 64 has carried bits of the low limb into
\* the high limb and shifted bits of the high limb out.
C11_Witness ==
    /\ op = "U128.Lsh"
    /\ args[1] > 0
    /\ args[1] < LimbBits
    /\ Shr(a.lo, LimbBits - args[1]) # 0
    /\ Shr(a.hi, LimbBits - args[1]) # 0
    /\ q.hi # Shl(a.hi, args[1])

---------------------------------------------------------------------------
(* Comparisons: every comparison applied to every pair of operands *)

U128_Equal(u, n) == u.hi = n.hi /\ u.lo = n.lo

U128_GreaterThan(u, n) == u.hi > n.hi \/ (u.hi = n.hi /\ u.lo > n.lo)

U128_GreaterOrEqualTo(u, n) == u.hi > n.hi \/ (u.hi = n.hi /\ u.lo >= n.lo)

U128_LessThan(u, n) == u.hi < n.hi \/ (u.hi = n.hi /\ u.lo < n.lo)

U128_LessOrEqualTo(u, n) == u.hi < n.hi \/ (u.hi = n.hi /\ u.lo <= n.lo)

\* I128.Cmp comparing the limbs as unsigned, the sign bits ignored.
I128_CmpUnsigned(i, n) ==
    IF i.hi = n.hi /\ i.lo = n.lo THEN 0
    ELSE IF i.hi > n.hi \/ (i.hi = n.hi /\ i.lo > n.lo) THEN 1
    ELSE -1

I128_Cmp(i, n) ==
    IF i.hi = n.hi /\ i.lo = n.lo THEN 0
    ELSE IF BitAnd(i.hi, signBit) = BitAnd(n.hi, signBit)
         THEN IF i.hi > n.hi \/ (i.hi = n.hi /\ i.lo > n.lo) THEN 1 ELSE -1
    ELSE IF BitAnd(i.hi, signBit) = 0 THEN 1
    ELSE -1

I128_Equal(i, n) == i.hi = n.hi /\ i.lo = n.lo

I128_GreaterThan(i, n) ==
    IF BitAnd(i.hi, signBit) = BitAnd(n.hi, signBit)
    THEN i.hi > n.hi \/ (i.hi = n.hi /\ i.lo > n.lo)
    ELSE BitAnd(i.hi, signBit) = 0

I128_GreaterOrEqualTo(i, n) ==
    IF i.hi = n.hi /\ i.lo = n.lo THEN TRUE
    ELSE IF BitAnd(i.hi, signBit) = BitAnd(n.hi, signBit)
         THEN i.hi > n.hi \/ (i.hi = n.hi /\ i.lo > n.lo)
    ELSE BitAnd(i.hi, signBit) = 0

I128_LessOrEqualTo(i, n) ==
    IF i.hi = n.hi /\ i.lo = n.lo THEN TRUE
    ELSE IF BitAnd(i.hi, signBit) = BitAnd(n.hi, signBit)
         THEN i.hi < n.hi \/ (i.hi = n.hi /\ i.lo < n.lo)
    ELSE BitAnd(i.hi, signBit) # 0

NextCmp ==
    \/ Call1("U128.Cmp", FALSE, U128_Cmp(a, by))
    \/ Call1("U128.Equal", FALSE, U128_Equal(a, by))
    \/ Call1("U128.GreaterThan", FALSE, U128_GreaterThan(a, by))
    \/ Call1("U128.GreaterOrEqualTo", FALSE, U128_GreaterOrEqualTo(a, by))
    \/ Call1("U128.LessThan", FALSE, U128_LessThan(a, by))
    \/ Call1("U128.LessOrEqualTo", FALSE, U128_LessOrEqualTo(a, by))
    \/ Call1("I128.Cmp", FALSE, I128_Cmp(a, by))
    \/ Call1("I128.Equal", FALSE, I128_Equal(a, by))
    \/ Call1("I128.GreaterThan", FALSE, I128_GreaterThan(a, by))
    \/ Call1("I128.GreaterOrEqualTo", FALSE, I128_GreaterOrEqualTo(a, by))
    \/ Call1("I128.LessThan", FALSE, I128_LessThan(a, by))
    \/ Call1("I128.LessOrEqualTo", FALSE, I128_LessOrEqualTo(a, by))

SpecCmp == Init /\ [][NextCmp]_vars

\* -1, 0 or 1 as x is negative, zero or positive
Sign(x) == IF x < 0 THEN -1 ELSE IF x > 0 THEN 1 ELSE 0

\* C12: U128.Cmp orders by unsigned value and I128.Cmp by two's-complement
\* value, each returning exactly -1, 0 or 1; on both types Equal, LessThan,
\* LessOrEqualTo, GreaterThan and GreaterOrEqualTo return Cmp = 0, Cmp < 0,
\* Cmp <= 0, Cmp > 0 and Cmp >= 0.
C12_CmpOrders ==
    /\ op # "none" => outcome = "returned"
    /\ op = "U128.Cmp" => q = Sign(U128Value(a) - U128Value(by))
    /\ op = "I128.Cmp" => q = Sign(I128Value(a) - I128Value(by))
    /\ op = "U128.Equal" => q = (U128_Cmp(a, by) = 0)
    /\ op = "U128.LessThan" => q = (U128_Cmp(a, by) < 0)
    /\ op = "U128.LessOrEqualTo" => q = (U128_Cmp(a, by) <= 0)
    /\ op = "U128.GreaterThan" => q = (U128_Cmp(a, by) > 0)
    /\ op = "U128.GreaterOrEqualTo" => q = (U128_Cmp(a, by) >= 0)
    /\ op = "I128.Equal" => q = (I128_Cmp(a, by) = 0)
    /\ op = "I128.LessThan" => q = (I128_Cmp(a, by) < 0)
    /\ op = "I128.LessOrEqualTo" => q = (I128_Cmp(a, by) <= 0)
    /\ op = "I128.GreaterThan" => q = (I128_Cmp(a, by) > 0)
    /\ op = "I128.GreaterOrEqualTo" => q = (I128_Cmp(a, by) >= 0)

\* C12 witness: I128.Cmp has put a negative value below a non-negative one
\* whose limbs are smaller as unsigned words.
C12_Witness ==
    /\ op = "I128.Cmp"
    /\ I128Value(a) < 0
    /\ I128Value(by) > 0
    /\ U128Value(a) > U128Value(by)
    /\ q = -1

\* C13: U128.Bit(i) panics exactly when i < 0 or i >= 128, and
\* U128.SetBit(i, b) exactly when i < 0 or i >= 128 or b is neither 0 nor 1;
\* every other call returns.
C13_BitPanics ==
    /\ op = "U128.Bit" =>
          /\ outcome \in {"panic", "returned"}
          /\ (outcome = "panic") = (args[1] < 0 \/ args[1] >= 2 * LimbBits)
    /\ op = "U128.SetBit" =>
          /\ outcome \in {"panic", "returned"}
          /\ (outcome = "panic") =
                 (args[1] < 0 \/ args[1] >= 2 * LimbBits \/ args[2] \notin {0, 1})

\* C13 witness: SetBit has panicked on a bit value of 2 at a valid index.
C13_Witness ==
    /\ op = "U128.SetBit"
    /\ args[1] >= 0
    /\ args[1] < 2 * LimbBits
    /\ args[2] = 2
    /\ outcome = "panic"

---------------------------------------------------------------------------
(* Conversions from and to math/big *)

\* A *big.Int is modelled as the integer it holds.  intSize, the width of a
\* big.Word, is 32 or 64 as the platform has it: HalfBits or LimbBits here.
IntSizes == {HalfBits, LimbBits}

\* The words of a natural number, least significant first, none leading zero.
RECURSIVE natWords(_, _)
natWords(x, intSize) ==
    IF x = 0 THEN <<>>
    ELSE <<x % 2^intSize>> \o natWords(x \div 2^intSize, intSize)

\* big.Int.Bits: the words of the absolute value
Bits(x, intSize) == natWords(IF x < 0 THEN -x ELSE x, intSize)

\* The switch on intSize and len(words) of U128FromBigInt and I128FromBigInt.
wordsToU128(words, intSize) ==
    IF intSize = LimbBits
    THEN CASE Len(words) = 0 -> [out |-> zeroU128, accurate |-> TRUE]
           [] Len(words) = 1 -> [out |-> U128FromRaw(0, words[1]), accurate |-> TRUE]
           [] Len(words) = 2 ->
                [out |-> U128FromRaw(words[2], words[1]), accurate |-> TRUE]
           [] OTHER -> [out |-> MaxU128, accurate |-> FALSE]
    ELSE CASE Len(words) = 0 -> [out |-> zeroU128, accurate |-> TRUE]
           [] Len(words) = 1 -> [out |-> U128FromRaw(0, words[1]), accurate |-> TRUE]
           [] Len(words) = 2 ->
                [out |-> U128FromRaw(0, BitOr(Shl(words[2], HalfBits), words[1])),
                 accurate |-> TRUE]
           [] Len(words) = 3 ->
                [out |-> U128FromRaw(words[3],
                                     BitOr(Shl(words[2], HalfBits), words[1])),
                 accurate |-> TRUE]
           [] Len(words) = 4 ->
                [out |-> U128FromRaw(BitOr(Shl(words[4], HalfBits), words[3]),
                                     BitOr(Shl(words[2], HalfBits), words[1])),
                 accurate |-> TRUE]
           [] OTHER -> [out |-> MaxU128, accurate |-> FALSE]

\* (out, inRange) of U128FromBigInt
U128FromBigInt(v, intSize) ==
    IF v < 0 THEN [out |-> zeroU128, accurate |-> FALSE]
    ELSE wordsToU128(Bits(v, intSize), intSize)

minI128AsAbsU128 == U128FromRaw(signBit, 0)

maxI128AsU128 == U128FromRaw(signBit - 1, maxUint64)

\* signedOfMagnitude taking the magnitude 2^127 of a negative value for an
\* overflow.
signedOfMagnitudeNoMin(neg, x) ==
    IF ~neg
    THEN IF U128_Cmp(x.out, maxI128AsU128) = 0
         THEN [out |-> MaxI128, accurate |-> x.accurate]
         ELSE IF U128_Cmp(x.out, maxI128AsU128) > 0
              THEN [out |-> MaxI128, accurate |-> FALSE]
              ELSE [out |-> U128_AsI128(x.out), accurate |-> x.accurate]
    ELSE IF U128_Cmp(x.out, minI128AsAbsU128) >= 0
         THEN [out |-> MinI128, accurate |-> FALSE]
         ELSE [out |-> I128_Neg(U128_AsI128(x.out)), accurate |-> x.accurate]

\* The second half of I128FromBigInt: the I128 of the sign neg and of the
\* magnitude (u, accurate) read from the words.
signedOfMagnitude(neg, x) ==
    IF ~neg
    THEN IF U128_Cmp(x.out, maxI128AsU128) = 0
         THEN [out |-> MaxI128, accurate |-> x.accurate]
         ELSE IF U128_Cmp(x.out, maxI128AsU128) > 0
              THEN [out |-> MaxI128, accurate |-> FALSE]
              ELSE [out |-> U128_AsI128(x.out), accurate |-> x.accurate]
    ELSE IF U128_Cmp(x.out, minI128AsAbsU128) = 0
         THEN [out |-> MinI128, accurate |-> x.accurate]
         ELSE IF U128_Cmp(x.out, minI128AsAbsU128) > 0
              THEN [out |-> MinI128, accurate |-> FALSE]
              ELSE [out |-> I128_Neg(U128_AsI128(x.out)), accurate |-> x.accurate]

\* (out, accurate) of I128FromBigInt
I128FromBigInt(v, intSize) ==
    signedOfMagnitude(v < 0, wordsToU128(Bits(v, intSize), intSize))

\* append(bits, make([]big.Word, n-ln)...) when len(bits) < n
growWords(bits, n) ==
    IF Len(bits) < n THEN bits \o [k \in 1 .. (n - Len(bits)) |-> 0] ELSE bits

\* big.Int.SetBits: the non-negative integer of the words abs
RECURSIVE SetBits(_, _)
SetBits(abs, intSize) ==
    IF abs = <<>> THEN 0 ELSE Head(abs) + 2^intSize * SetBits(Tail(abs), intSize)

\* U128.IntoBigInt: the integer the buffer holds after the call, bb the one
\* it held before.
U128_IntoBigInt(u, bb, intSize) ==
    IF intSize = LimbBits
    THEN SetBits([SubSeq(growWords(Bits(bb, intSize), 2), 1, 2)
                     EXCEPT ![1] = u.lo, ![2] = u.hi], intSize)
    ELSE SetBits([SubSeq(growWords(Bits(bb, intSize), 4), 1, 4)
                     EXCEPT ![1] = BitAnd(u.lo, halfMask),
                            ![2] = Shr(u.lo, HalfBits),
                            ![3] = BitAnd(u.hi, halfMask),
                            ![4] = Shr(u.hi, HalfBits)], intSize)

\* U128.AsBigInt: IntoBigInt on a new big.Int
U128_AsBigInt(u, intSize) == U128_IntoBigInt(u, 0, intSize)

\* 2^128 - 1
maxBigU128 == Wrap * Wrap - 1

\* x ^ y on natural numbers
RECURSIVE natXor(_, _)
natXor(x, y) ==
    IF x = 0 THEN y
    ELSE IF y = 0 THEN x
    ELSE (IF x % 2 = y % 2 THEN 0 ELSE 1) + 2 * natXor(x \div 2, y \div 2)

\* big.Int.Xor(x, y) for y >= 0: two's complement for a negative x
bigXor(x, y) == IF x < 0 THEN -natXor(-x - 1, y) - 1 ELSE natXor(x, y)

\* if i.hi > 0 { b.SetUint64(i.hi); b.Lsh(b, 64) }; b.Add(b, &lo)
bigOfLimbs(i, bb) == (IF i.hi > 0 THEN i.hi * 2^LimbBits ELSE bb) + i.lo

\* I128.IntoBigInt: the integer the buffer holds after the call, bb the one
\* it held before.
I128_IntoBigInt(i, bb) ==
    IF BitAnd(i.hi, signBit) # 0
    THEN -(bigXor(bigOfLimbs(i, bb), maxBigU128) + 1)
    ELSE bigOfLimbs(i, bb)

\* I128.AsBigInt: the same statements on a new big.Int
I128_AsBigInt(i) == I128_IntoBigInt(i, 0)

InitBig ==
    /\ a = zeroU128
    /\ by = zeroU128
    /\ op = "none"
    /\ outcome = "none"
    /\ q = zeroU128
    /\ r = zeroU128
    /\ args = <<>>

\* A call on the receiver v with arguments xs that returns (v1, v2).
CallOn(name, v, xs, v1, v2) ==
    /\ op = "none"
    /\ op' = name
    /\ a' = v
    /\ args' = xs
    /\ outcome' = "returned"
    /\ q' = v1
    /\ r' = v2
    /\ UNCHANGED by

\* The big integers converted: those of the range of either type, those
\* next to it, and some of more words than 128 bits take.
BigInts ==
    (-(Wrap * Wrap + 2) .. (Wrap * Wrap + 2))
        \cup {x * Wrap * Wrap + y : x \in {-Wrap, -2, 2, Wrap}, y \in {0, 1, maxUint64}}

NextBig ==
    \/ /\ op = "none"
       /\ \E v \in BigInts, s \in IntSizes :
             CallOn("U128FromBigInt", a, <<v, s>>,
                    U128FromBigInt(v, s).out, U128FromBigInt(v, s).accurate)
    \/ /\ op = "none"
       /\ \E v \in BigInts, s \in IntSizes :
             CallOn("I128FromBigInt", a, <<v, s>>,
                    I128FromBigInt(v, s).out, I128FromBigInt(v, s).accurate)
    \/ /\ op = "none"
       /\ \E v \in Values, s \in IntSizes :
             CallOn("U128.AsBigInt", v, <<s>>, U128_AsBigInt(v, s), r)
    \/ /\ op = "none"
       /\ \E v \in Values, s \in IntSizes :
             CallOn("I128.AsBigInt", v, <<s>>, I128_AsBigInt(v), r)

SpecBig == InitBig /\ [][NextBig]_vars

\* C14: U128FromBigInt and I128FromBigInt never fault.  A big integer inside
\* the range gives that value and true, so that FromBigInt(v.AsBigInt()) =
\* (v, true) for every v; one above the range gives (MaxU128 or MaxI128,
\* false) and one below it (0 or MinI128, false).
C14_FromBigInt ==
    /\ op = "U128FromBigInt" =>
          /\ outcome = "returned"
          /\ (0 <= args[1] /\ args[1] <= maxBigU128) =>
                (U128Value(q) = args[1] /\ r = TRUE)
          /\ args[1] > maxBigU128 => (q = MaxU128 /\ r = FALSE)
          /\ args[1] < 0 => (q = zeroU128 /\ r = FALSE)
    /\ op = "I128FromBigInt" =>
          /\ outcome = "returned"
          /\ (I128Value(MinI128) <= args[1] /\ args[1] <= I128Value(MaxI128)) =>
                (I128Value(q) = args[1] /\ r = TRUE)
          /\ args[1] > I128Value(MaxI128) => (q = MaxI128 /\ r = FALSE)
          /\ args[1] < I128Value(MinI128) => (q = MinI128 /\ r = FALSE)
    /\ op = "U128.AsBigInt" =>
          /\ q = U128Value(a)
          /\ U128FromBigInt(q, args[1]) = [out |-> a, accurate |-> TRUE]
    /\ op = "I128.AsBigInt" =>
          /\ q = I128Value(a)
          /\ I128FromBigInt(q, args[1]) = [out |-> a, accurate |-> TRUE]

\* C14 witness: I128FromBigInt has returned (MinI128, true) for -2^127.
C14_Witness ==
    /\ op = "I128FromBigInt"
    /\ args[1] = -(Wrap * Wrap) \div 2
    /\ q = MinI128
    /\ r = TRUE

---------------------------------------------------------------------------
(* Text: strings, tokens and JSON *)

\* A string or a byte slice is modelled as the sequence of its characters.
Digits == <<"0", "1", "2", "3", "4", "5", "6", "7", "8", "9">>

isDigit(c) == \E d \in 1 .. 10 : Digits[d] = c

digitOf(c) == (CHOOSE d \in 1 .. 10 : Digits[d] = c) - 1

\* strconv.FormatUint(x, 10), and big.Int.String of a natural number
RECURSIVE natString(_)
natString(x) ==
    IF x < 10 THEN <<Digits[x + 1]>>
    ELSE natString(x \div 10) \o <<Digits[(x % 10) + 1]>>

\* big.Int.String
bigString(x) == IF x < 0 THEN <<"-">> \o natString(-x) ELSE natString(x)

\* The value of the decimal digits s, acc the value of those read so far.
RECURSIVE natOfDigits(_, _)
natOfDigits(s, acc) ==
    IF s = <<>> THEN acc
    ELSE natOfDigits(Tail(s), acc * 10 + digitOf(Head(s)))

\* s without its sign
unsignedPart(s) == IF s # <<>> /\ Head(s) \in {"+", "-"} THEN Tail(s) ELSE s

\* (value, ok) of new(big.Int).SetString(s, 10): an optional sign and one or
\* more decimal digits, nothing else.
SetString(s) ==
    IF unsignedPart(s) = <<>>
         \/ \E k \in 1 .. Len(unsignedPart(s)) : ~isDigit(unsignedPart(s)[k])
    THEN [ok |-> FALSE, v |-> 0]
    ELSE [ok |-> TRUE,
          v  |-> IF Head(s) = "-"
                 THEN -natOfDigits(unsignedPart(s), 0)
                 ELSE natOfDigits(unsignedPart(s), 0)]

\* (out, inRange, err) of U128FromString; err is TRUE for a non-nil error.
U128FromString(s, intSize) ==
    IF ~SetString(s).ok
    THEN [out |-> zeroU128, inRange |-> FALSE, err |-> TRUE]
    ELSE [out     |-> U128FromBigInt(SetString(s).v, intSize).out,
          inRange |-> U128FromBigInt(SetString(s).v, intSize).accurate,
          err     |-> FALSE]

\* (out, accurate, err) of I128FromString
I128FromString(s, intSize) ==
    IF ~SetString(s).ok
    THEN [out |-> zeroI128, inRange |-> FALSE, err |-> TRUE]
    ELSE [out     |-> I128FromBigInt(SetString(s).v, intSize).out,
          inRange |-> I128FromBigInt(SetString(s).v, intSize).accurate,
          err     |-> FALSE]

\* U128.Scan and I128.Scan on the receiver u: tokenErr is the error of
\* state.Token, x the result of FromString on the token.
scanInto(u, tokenErr, x) ==
    IF tokenErr THEN [panic |-> FALSE, err |-> TRUE, u |-> u]
    ELSE IF x.err THEN [panic |-> FALSE, err |-> TRUE, u |-> u]
    ELSE IF ~x.inRange THEN [panic |-> FALSE, err |-> TRUE, u |-> u]
    ELSE [panic |-> FALSE, err |-> FALSE, u |-> x.out]

\* U128.UnmarshalText and I128.UnmarshalText on the receiver u: x is the
\* result of FromString on the text, its range flag is dropped.
unmarshalTextInto(u, x) ==
    IF x.err THEN [panic |-> FALSE, err |-> TRUE, u |-> u]
    ELSE [panic |-> FALSE, err |-> FALSE, u |-> x.out]

\* The head of UnmarshalJSON: bts[0] and bts[1 : ln-1] panic out of range.
jsonUnquote(bts) ==
    IF bts = <<>> THEN [panic |-> TRUE, err |-> FALSE, bts |-> bts]
    ELSE IF bts[1] = "\""
         THEN IF bts[Len(bts)] # "\""
              THEN [panic |-> FALSE, err |-> TRUE, bts |-> bts]
              ELSE IF 1 > Len(bts) - 1
                   THEN [panic |-> TRUE, err |-> FALSE, bts |-> bts]
                   ELSE [panic |-> FALSE, err |-> FALSE,
                         bts |-> SubSeq(bts, 2, Len(bts) - 1)]
    ELSE [panic |-> FALSE, err |-> FALSE, bts |-> bts]

\* The rest of UnmarshalJSON on the receiver u: j is the unquoting, x the
\* result of FromString on the unquoted text.
unmarshalJSONInto(u, j, x) ==
    IF j.panic THEN [panic |-> TRUE, err |-> FALSE, u |-> u]
    ELSE IF j.err THEN [panic |-> FALSE, err |-> TRUE, u |-> u]
    ELSE unmarshalTextInto(u, x)

U128_UnmarshalJSON(u, bts, intSize) ==
    unmarshalJSONInto(u, jsonUnquote(bts),
                      U128FromString(jsonUnquote(bts).bts, intSize))

I128_UnmarshalJSON(i, bts, intSize) ==
    unmarshalJSONInto(i, jsonUnquote(bts),
                      I128FromString(jsonUnquote(bts).bts, intSize))

U128_String(u, intSize) ==
    IF u.lo = 0 /\ u.hi = 0 THEN <<"0">>
    ELSE IF u.hi = 0 THEN natString(u.lo)
    ELSE bigString(U128_AsBigInt(u, intSize))

I128_String(i) == bigString(I128_AsBigInt(i))

\* `"` + String() + `"` of U128.MarshalJSON and I128.MarshalJSON
marshalJSON(str) == <<"\"">> \o str \o <<"\"">>

\* The digits the texts are written with: all ten while the word is small.
DigitChars ==
    IF HalfBits <= 2
    THEN {Digits[d] : d \in 1 .. 10}
    ELSE {"0", "2", "4", "9"}

\* As many digits as 2^128 has, so that numbers out of range can be written.
MaxDigits == Len(natString(Wrap * Wrap))

\* The texts parsed: an optional opening quote, an optional sign, no to
\* MaxDigits digits, and nothing, a closing quote or a letter at the end.
Texts ==
    {p \o sg \o d \o e :
        p \in {<<>>, <<"\"">>},
        sg \in {<<>>, <<"-">>, <<"+">>},
        d \in UNION {[1 .. n -> DigitChars] : n \in 0 .. MaxDigits},
        e \in {<<>>, <<"\"">>, <<"x">>}}

\* The values a receiver holds before Scan or Unmarshal stores into it.
Receivers == {zeroU128, U128FromRaw(1, 2)}

\* A call on the receiver v, a pointer, with arguments xs: x is (panic, err,
\* u), u the receiver after the call.
CallPtr(name, v, xs, x) ==
    /\ op = "none"
    /\ op' = name
    /\ a' = v
    /\ args' = xs
    /\ outcome' = IF x.panic THEN "panic" ELSE "returned"
    /\ q' = IF x.panic THEN v ELSE x.u
    /\ r' = IF x.panic THEN r ELSE [err |-> x.err]
    /\ UNCHANGED by

\* No call is made after the first: the guard op = "none" comes first.
NextText ==
    \/ /\ op = "none"
       /\ \E t \in Texts, s \in IntSizes :
             CallOn("U128FromString", a, <<t, s>>, U128FromString(t, s).out,
                    [inRange |-> U128FromString(t, s).inRange,
                     err |-> U128FromString(t, s).err])
    \/ /\ op = "none"
       /\ \E t \in Texts, s \in IntSizes :
             CallOn("I128FromString", a, <<t, s>>, I128FromString(t, s).out,
                    [inRange |-> I128FromString(t, s).inRange,
                     err |-> I128FromString(t, s).err])
    \/ /\ op = "none"
       /\ \E v \in Receivers, t \in Texts, s \in IntSizes, e \in BOOLEAN :
             /\ e => t = <<>>
             /\ CallPtr("U128.Scan", v, <<t, s, e>>,
                        scanInto(v, e, U128FromString(t, s)))
    \/ /\ op = "none"
       /\ \E v \in Receivers, t \in Texts, s \in IntSizes, e \in BOOLEAN :
             /\ e => t = <<>>
             /\ CallPtr("I128.Scan", v, <<t, s, e>>,
                        scanInto(v, e, I128FromString(t, s)))
    \/ /\ op = "none"
       /\ \E v \in Receivers, t \in Texts, s \in IntSizes :
             CallPtr("U128.UnmarshalText", v, <<t, s>>,
                     unmarshalTextInto(v, U128FromString(t, s)))
    \/ /\ op = "none"
       /\ \E v \in Receivers, t \in Texts, s \in IntSizes :
             CallPtr("I128.UnmarshalText", v, <<t, s>>,
                     unmarshalTextInto(v, I128FromString(t, s)))
    \/ /\ op = "none"
       /\ \E v \in Receivers, t \in Texts, s \in IntSizes :
             CallPtr("U128.UnmarshalJSON", v, <<t, s>>, U128_UnmarshalJSON(v, t, s))
    \/ /\ op = "none"
       /\ \E v \in Receivers, t \in Texts, s \in IntSizes :
             CallPtr("I128.UnmarshalJSON", v, <<t, s>>, I128_UnmarshalJSON(v, t, s))
    \/ /\ op = "none"
       /\ \E v \in Values, s \in IntSizes :
             CallOn("U128.MarshalJSON", v, <<s>>, marshalJSON(U128_String(v, s)),
                    [err |-> FALSE])
    \/ /\ op = "none"
       /\ \E v \in Values, s \in IntSizes :
             CallOn("I128.MarshalJSON", v, <<s>>, marshalJSON(I128_String(v)),
                    [err |-> FALSE])

SpecText == InitBig /\ [][NextText]_vars

ParseOps ==
    {"U128FromString", "I128FromString", "U128.Scan", "I128.Scan",
     "U128.UnmarshalText", "I128.UnmarshalText",
     "U128.UnmarshalJSON", "I128.UnmarshalJSON"}

\* C15: for every input, the empty one and a single quote character among
\* them, FromString, Scan, UnmarshalText and UnmarshalJSON of both types
\* return normally and never panic.
C15_ParsingNeverPanics == op \in ParseOps => outcome = "returned"

\* The decimal text a call was given: what is between the quotes for JSON.
GivenText ==
    IF op \in {"U128.UnmarshalJSON", "I128.UnmarshalJSON"}
    THEN jsonUnquote(args[1]).bts
    ELSE args[1]

\* The call was given a decimal text of a value outside the range of its type.
GivenOutOfRange ==
    /\ SetString(GivenText).ok
    /\ IF op \in {"U128FromString", "U128.Scan", "U128.UnmarshalText",
                  "U128.UnmarshalJSON"}
       THEN SetString(GivenText).v < 0 \/ SetString(GivenText).v > maxBigU128
       ELSE \/ SetString(GivenText).v < I128Value(MinI128)
            \/ SetString(GivenText).v > I128Value(MaxI128)

\* C16: whenever the decimal text given to FromString, Scan, UnmarshalText or
\* UnmarshalJSON denotes a value outside the range of the type, the call
\* reports it, by a false flag or by an error.
C16_OverflowReported ==
    (op \in ParseOps /\ outcome = "returned" /\ GivenOutOfRange) =>
        \/ r.err
        \/ (op \in {"U128FromString", "I128FromString"} /\ ~r.inRange)

\* C17: MarshalJSON emits the decimal value between quotes and UnmarshalJSON
\* reads it back to the same value; UnmarshalJSON does not accept a number
\* that is not between quotes.
C17_JSONQuoted ==
    /\ op = "U128.MarshalJSON" =>
          /\ q = <<"\"">> \o bigString(U128Value(a)) \o <<"\"">>
          /\ U128_UnmarshalJSON(zeroU128, q, args[1]) =
                [panic |-> FALSE, err |-> FALSE, u |-> a]
    /\ op = "I128.MarshalJSON" =>
          /\ q = <<"\"">> \o bigString(I128Value(a)) \o <<"\"">>
          /\ I128_UnmarshalJSON(zeroI128, q, args[1]) =
                [panic |-> FALSE, err |-> FALSE, u |-> a]
    /\ (op \in {"U128.UnmarshalJSON", "I128.UnmarshalJSON"}
          /\ SetString(args[1]).ok) =>
          (outcome = "returned" /\ r.err /\ q = a)

(***************************************************************************)
(* IntoBigInt: one big.Int handed to call after call *)
(***************************************************************************)

\* The calls made on one buffer
MaxCalls == 2

\* What the buffer holds before the first call: zero, positive and negative
\* integers, and integers of more than 128 bits.
Buffers ==
    {0, 1, 7, maxUint64, Wrap, maxBigU128, -1, -7, -Wrap,
     Wrap * Wrap, Wrap * Wrap * Wrap + 5, -(Wrap * Wrap) - 3}

\* q is the integer the buffer b holds and r the number of calls made on it.
InitInto ==
    /\ a = zeroU128
    /\ by = zeroU128
    /\ op = "none"
    /\ outcome = "none"
    /\ q \in Buffers
    /\ r = 0
    /\ args = <<>>

\* v.IntoBigInt(b): xs is the word size.
CallInto(name, v, xs, after) ==
    /\ op' = name
    /\ a' = v
    /\ args' = xs
    /\ outcome' = "returned"
    /\ q' = after
    /\ r' = r + 1
    /\ UNCHANGED by

NextInto ==
    \/ /\ r < MaxCalls
       /\ \E v \in Values, s \in IntSizes :
             CallInto("U128.IntoBigInt", v, <<s>>, U128_IntoBigInt(v, q, s))
    \/ /\ r < MaxCalls
       /\ \E v \in Values :
             CallInto("I128.IntoBigInt", v, <<LimbBits>>, I128_IntoBigInt(v, q))

SpecInto == InitInto /\ [][NextInto]_vars

\* C18: after v.IntoBigInt(b) the buffer holds the value of v, which is what
\* v.AsBigInt() returns, whatever it held before the call and however many
\* calls were made on it, for U128 and for I128.
C18_BufferHoldsValue ==
    /\ op = "U128.IntoBigInt" =>
          (q = U128Value(a) /\ q = U128_AsBigInt(a, args[1]))
    /\ op = "I128.IntoBigInt" =>
          (q = I128Value(a) /\ q = I128_AsBigInt(a))

\* C19: for every U128 u, u.OnesCount() is the number of one bits in all 128
\* bits of u, the one bits of hi plus the one bits of lo.
C19_OnesCountAllBits ==
    op = "U128.OnesCount" => q = OnesCount64(a.hi) + OnesCount64(a.lo)

\* a rotated left by s bit positions, 0 <= s < 128, as a number
RotatedValue(x, s) ==
    ((x * 2^s) % (Wrap * Wrap)) + ((x * 2^s) \div (Wrap * Wrap))

\* C20: for every U128 a and every int k, negative or 128 and above as well,
\* a.RotateLeft(k) is a rotated left by k mod 128 bit positions with no bit
\* lost; RotateLeft(0) and RotateLeft(128) return a, RotateLeft(64) swaps the
\* two limbs, and RotateLeft(-k) undoes RotateLeft(k).
C20_RotateLeft ==
    op = "U128.RotateLeft" =>
        /\ U128Value(q) = RotatedValue(U128Value(a), args[1] % (2 * LimbBits))
        /\ OnesCount64(q.hi) + OnesCount64(q.lo)
              = OnesCount64(a.hi) + OnesCount64(a.lo)
        /\ args[1] \in {0, 2 * LimbBits} => q = a
        /\ args[1] = LimbBits => q = [hi |-> a.lo, lo |-> a.hi]
        /\ U128_RotateLeft(q, -args[1]) = a

\* A rotation by a negative count, and one by a count above 128, that carry
\* one bits from each limb into the other.
C20_Witness ==
    /\ op = "U128.RotateLeft"
    /\ args[1] < -LimbBits \/ args[1] > 2 * LimbBits
    /\ args[1] % LimbBits # 0
    /\ BitAnd(a.hi, signBit) # 0
    /\ BitAnd(a.lo, signBit) # 0
    /\ q # a

\* C21 as stated: I128From64(math.MinInt64).QuoRem(I128From64(-1)) returns
\* (MinI128, 0).
C21_AsStated ==
    (op = "I128.QuoRem" /\ a = I128From64(minInt64) /\ by = I128From64(-1)) =>
        (outcome = "returned" /\ q = MinI128 /\ r = zeroI128)

\* C21: I128From64(math.MinInt64).QuoRem(I128From64(-1)) returns (2^63, 0),
\* the I128 of limbs hi = 0 and lo = 0x8000000000000000, without faulting.
C21_MinInt64ByMinusOne ==
    (op = "I128.QuoRem" /\ a = I128From64(minInt64) /\ by = I128From64(-1)) =>
        /\ outcome = "returned"
        /\ q = I128FromRaw(0, signBit)
        /\ I128Value(q) = 2^(LimbBits - 1)
        /\ r = zeroI128

\* C21 witness: QuoRem has returned from -2^63 divided by -1.
C21_Witness ==
    /\ op = "I128.QuoRem"
    /\ a = I128FromRaw(maxUint64, signBit)
    /\ I128Value(a) = minInt64
    /\ by = I128FromRaw(maxUint64, maxUint64)
    /\ outcome = "returned"

\* C22 as stated: U128{hi: 0x8000000000000000, lo: 0}.Lsh(1) returns
\* U128{hi: 1, lo: 0} and does not fault.
C22_AsStated ==
    (op = "U128.Lsh" /\ a = U128FromRaw(signBit, 0) /\ args = <<1>>) =>
        (outcome = "returned" /\ q = U128FromRaw(1, 0))

\* C22: U128{hi: 0x8000000000000000, lo: 0}.Lsh(1) returns U128{hi: 0, lo: 0},
\* the top bit shifted out, and does not fault.
C22_TopBitShiftedOut ==
    (op = "U128.Lsh" /\ a = U128FromRaw(signBit, 0) /\ args = <<1>>) =>
        (outcome = "returned" /\ q = U128FromRaw(0, 0))

\* C22 witness: Lsh(1) has returned from 2^127.
C22_Witness ==
    /\ op = "U128.Lsh"
    /\ a = U128FromRaw(signBit, 0)
    /\ U128Value(a) = 2^(2 * LimbBits - 1)
    /\ args = <<1>>
    /\ outcome = "returned"

(***************************************************************************)
(* The variants that take a 64-bit operand *)
(***************************************************************************)

\* bits.Div64: panics when y = 0 (division by zero) and when y <= hi
\* (quotient overflow).
Div64(hi, lo, y) ==
    IF y = 0 \/ y <= hi THEN [panic |-> TRUE, quo |-> 0, rem |-> 0]
    ELSE [panic |-> FALSE,
          quo |-> (hi * Wrap + lo) \div y,
          rem |-> (hi * Wrap + lo) % y]

\* The second bits.Div64 of the two-limb branch: the high quotient limb and
\* the remainder of the high limb come from the first.
quoRem64Low(d1, lo, d) ==
    IF d1.panic \/ Div64(d1.rem, lo, d).panic THEN Panicked
    ELSE Returned(U128FromRaw(d1.quo, Div64(d1.rem, lo, d).quo),
                  U128FromRaw(0, Div64(d1.rem, lo, d).rem))

U128_QuoRem64(u, d) ==
    IF u.hi < d
    THEN IF Div64(u.hi, u.lo, d).panic THEN Panicked
         ELSE Returned(U128FromRaw(0, Div64(u.hi, u.lo, d).quo),
                       U128FromRaw(0, Div64(u.hi, u.lo, d).rem))
    ELSE quoRem64Low(Div64(0, u.hi, d), u.lo, d)

\* q.hi = u.hi / by and bits.Div64(u.hi % by, u.lo, by) in the two-limb branch
U128_Quo64(u, d) ==
    IF u.hi < d THEN quoOnly(U128_QuoRem64(u, d))
    ELSE IF d = 0 THEN quoOnly(Panicked)
    ELSE quoOnly(quoRem64Low([panic |-> FALSE, quo |-> u.hi \div d,
                              rem |-> u.hi % d], u.lo, d))

U128_Rem64(u, d) == remOnly(U128_QuoRem64(u, d))

U128_Add64(u, n) ==
    [hi |-> WAdd(u.hi, Add64(u.lo, n, 0).carryOut), lo |-> Add64(u.lo, n, 0).sum]

U128_Sub64(u, n) ==
    [hi |-> WSub(u.hi, Sub64(u.lo, n, 0).borrowOut), lo |-> Sub64(u.lo, n, 0).diff]

U128_Mul64(u, n) ==
    [hi |-> WAdd(Mul64(u.lo, n).hi, WMul(u.hi, n)), lo |-> Mul64(u.lo, n).lo]

U128_Cmp64(u, n) ==
    IF u.hi > 0 \/ u.lo > n THEN 1 ELSE IF u.lo < n THEN -1 ELSE 0

U128_And64(u, n) == [hi |-> 0, lo |-> BitAnd(u.lo, n)]

U128_Or(u, n) == [hi |-> BitOr(u.hi, n.hi), lo |-> BitOr(u.lo, n.lo)]

U128_Or64(u, n) == [u EXCEPT !.lo = BitOr(u.lo, n)]

U128_Xor(u, v) == [hi |-> natXor(u.hi, v.hi), lo |-> natXor(u.lo, v.lo)]

U128_Xor64(u, v) == [hi |-> natXor(u.hi, 0), lo |-> natXor(u.lo, v)]

\* uint64(n) of an int64 n
asUint64(n) == n % Wrap

\* by = -by on an int64: -math.MinInt64 wraps to math.MinInt64
negInt64(d) == IF d = minInt64 THEN d ELSE -d

\* I128.Add64 adding nothing to the high limb for a negative n.
I128_Add64NoSignExtend(i, n) ==
    [hi |-> WAdd(i.hi, Add64(i.lo, asUint64(n), 0).carryOut),
     lo |-> Add64(i.lo, asUint64(n), 0).sum]

I128_Add64(i, n) ==
    IF n < 0
    THEN [hi |-> WAdd(WAdd(i.hi, maxUint64), Add64(i.lo, asUint64(n), 0).carryOut),
          lo |-> Add64(i.lo, asUint64(n), 0).sum]
    ELSE [hi |-> WAdd(i.hi, Add64(i.lo, asUint64(n), 0).carryOut),
          lo |-> Add64(i.lo, asUint64(n), 0).sum]

I128_Sub64(i, n) ==
    IF n < 0
    THEN [hi |-> WSub(WSub(i.hi, maxUint64), Sub64(i.lo, asUint64(n), 0).borrowOut),
          lo |-> Sub64(i.lo, asUint64(n), 0).diff]
    ELSE [hi |-> WSub(i.hi, Sub64(i.lo, asUint64(n), 0).borrowOut),
          lo |-> Sub64(i.lo, asUint64(n), 0).diff]

\* nhi: maxUint64 for a negative n, else 0
signWord(n) == IF n < 0 THEN maxUint64 ELSE 0

I128_Mul64(i, n) ==
    [hi |-> WAdd(Mul64(i.lo, asUint64(n)).hi,
                 WAdd(WMul(i.hi, asUint64(n)), WMul(i.lo, signWord(n)))),
     lo |-> Mul64(i.lo, asUint64(n)).lo]

I128_Cmp64(i, n) ==
    IF i.hi = signWord(n) /\ i.lo = asUint64(n) THEN 0
    ELSE IF BitAnd(i.hi, signBit) = BitAnd(signWord(n), signBit)
         THEN IF i.hi > signWord(n) \/ (i.hi = signWord(n) /\ i.lo > asUint64(n))
              THEN 1 ELSE -1
    ELSE IF BitAnd(i.hi, signBit) = 0 THEN 1
    ELSE -1

\* The signs put back on the (q, r) of the magnitudes.
signed64(x, qneg, rneg) ==
    IF x.panic THEN Panicked
    ELSE Returned(IF qneg THEN I128_Neg(x.q) ELSE x.q,
                  IF rneg THEN I128_Neg(x.r) ELSE x.r)

I128_QuoRem64(i, d) ==
    signed64(U128_QuoRem64(IF BitAnd(i.hi, signBit) # 0 THEN I128_Neg(i) ELSE i,
                           asUint64(IF d < 0 THEN negInt64(d) ELSE d)),
             (BitAnd(i.hi, signBit) # 0) # (d < 0),
             BitAnd(i.hi, signBit) # 0)

I128_Quo64(i, d) == quoOnly(I128_QuoRem64(i, d))

I128_Rem64(i, d) == remOnly(I128_QuoRem64(i, d))

\* The operands n: every uint64 and every int64 while the word is small,
\* else those at the edges.
Uint64s == Limbs

Int64s == {AsInt(n) : n \in Limbs}

\* A call that returns (q, r) or panics.
CallArgs2(name, xs, x) == CallArgs(name, xs, x.panic, <<x.q, x.r>>)

Next64 ==
    \/ /\ op = "none"
       /\ \E n \in Uint64s : CallArgs("U128.Add64", <<n>>, FALSE, U128_Add64(a, n))
    \/ /\ op = "none"
       /\ \E n \in Uint64s : CallArgs("U128.Sub64", <<n>>, FALSE, U128_Sub64(a, n))
    \/ /\ op = "none"
       /\ \E n \in Uint64s : CallArgs("U128.Mul64", <<n>>, FALSE, U128_Mul64(a, n))
    \/ /\ op = "none"
       /\ \E n \in Uint64s :
             CallArgs("U128.Quo64", <<n>>, U128_Quo64(a, n).panic, U128_Quo64(a, n).q)
    \/ /\ op = "none"
       /\ \E n \in Uint64s :
             CallArgs("U128.Rem64", <<n>>, U128_Rem64(a, n).panic, U128_Rem64(a, n).r)
    \/ /\ op = "none"
       /\ \E n \in Uint64s : CallArgs2("U128.QuoRem64", <<n>>, U128_QuoRem64(a, n))
    \/ /\ op = "none"
       /\ \E n \in Uint64s : CallArgs("U128.Cmp64", <<n>>, FALSE, U128_Cmp64(a, n))
    \/ /\ op = "none"
       /\ \E n \in Uint64s : CallArgs("U128.And64", <<n>>, FALSE, U128_And64(a, n))
    \/ /\ op = "none"
       /\ \E n \in Uint64s : CallArgs("U128.Or64", <<n>>, FALSE, U128_Or64(a, n))
    \/ /\ op = "none"
       /\ \E n \in Uint64s : CallArgs("U128.Xor64", <<n>>, FALSE, U128_Xor64(a, n))
    \/ /\ op = "none"
       /\ \E n \in Int64s : CallArgs("I128.Add64", <<n>>, FALSE, I128_Add64(a, n))
    \/ /\ op = "none"
       /\ \E n \in Int64s : CallArgs("I128.Sub64", <<n>>, FALSE, I128_Sub64(a, n))
    \/ /\ op = "none"
       /\ \E n \in Int64s : CallArgs("I128.Mul64", <<n>>, FALSE, I128_Mul64(a, n))
    \/ /\ op = "none"
       /\ \E n \in Int64s :
             CallArgs("I128.Quo64", <<n>>, I128_Quo64(a, n).panic, I128_Quo64(a, n).q)
    \/ /\ op = "none"
       /\ \E n \in Int64s :
             CallArgs("I128.Rem64", <<n>>, I128_Rem64(a, n).panic, I128_Rem64(a, n).r)
    \/ /\ op = "none"
       /\ \E n \in Int64s : CallArgs2("I128.QuoRem64", <<n>>, I128_QuoRem64(a, n))
    \/ /\ op = "none"
       /\ \E n \in Int64s : CallArgs("I128.Cmp64", <<n>>, FALSE, I128_Cmp64(a, n))

Spec64 == InitBits /\ [][Next64]_vars

\* The 128-bit operation named nm applied to x and y: what it returns, a pair
\* for QuoRem.
Wide(nm, x, y) ==
    CASE nm = "U128.Add64" -> U128_Add(x, y)
      [] nm = "U128.Sub64" -> U128_Sub(x, y)
      [] nm = "U128.Mul64" -> U128_Mul(x, y)
      [] nm = "U128.Quo64" -> U128_Quo(x, y).q
      [] nm = "U128.Rem64" -> U128_Rem(x, y).r
      [] nm = "U128.QuoRem64" -> <<U128_QuoRem(x, y).q, U128_QuoRem(x, y).r>>
      [] nm = "U128.Cmp64" -> U128_Cmp(x, y)
      [] nm = "U128.And64" -> U128_And(x, y)
      [] nm = "U128.Or64" -> U128_Or(x, y)
      [] nm = "U128.Xor64" -> U128_Xor(x, y)
      [] nm = "I128.Add64" -> I128_Add(x, y)
      [] nm = "I128.Sub64" -> I128_Sub(x, y)
      [] nm = "I128.Mul64" -> I128_Mul(x, y)
      [] nm = "I128.Quo64" -> I128_Quo(x, y).q
      [] nm = "I128.Rem64" -> I128_Rem(x, y).r
      [] nm = "I128.QuoRem64" -> <<I128_QuoRem(x, y).q, I128_QuoRem(x, y).r>>
      [] nm = "I128.Cmp64" -> I128_Cmp(x, y)

Ops64 ==
    {"U128.Add64", "U128.Sub64", "U128.Mul64", "U128.Quo64", "U128.Rem64",
     "U128.QuoRem64", "U128.Cmp64", "U128.And64", "U128.Or64", "U128.Xor64",
     "I128.Add64", "I128.Sub64", "I128.Mul64", "I128.Quo64", "I128.Rem64",
     "I128.QuoRem64", "I128.Cmp64"}

DivOps64 ==
    {"U128.Quo64", "U128.Rem64", "U128.QuoRem64",
     "I128.Quo64", "I128.Rem64", "I128.QuoRem64"}

\* The operand n of the call widened: U128From64(n) or I128From64(n).
Widened ==
    IF op \in {"I128.Add64", "I128.Sub64", "I128.Mul64", "I128.Quo64",
               "I128.Rem64", "I128.QuoRem64", "I128.Cmp64"}
    THEN I128From64(args[1])
    ELSE U128From64(args[1])

\* C23: every variant with a 64-bit operand n returns what the 128-bit
\* operation returns on U128From64(n), or I128From64(n); the division
\* variants for n # 0, math.MinInt64 and -1 among them, MinI128 among the
\* receivers.
C23_Variants64 ==
    (op \in Ops64 /\ (op \in DivOps64 => args[1] # 0)) =>
        (outcome = "returned" /\ q = Wide(op, a, Widened))

\* C23 witness: MinI128 divided by math.MinInt64, and by -1, with QuoRem64.
C23_Witness ==
    /\ op = "I128.QuoRem64"
    /\ a = MinI128
    /\ args[1] \in {minInt64, -1}
    /\ outcome = "returned"

\* The iterations binary long division is to make on (u, d): one more than
\* the difference of the bit lengths of the two values.
BinIterations(u, d) == Len64(U128Value(u)) - Len64(U128Value(d)) + 1

\* C24: whenever U128.QuoRem or U128.Quo reaches the choice between the two
\* algorithms, leadingZeros(by) >= leadingZeros(a), both counts being those of
\* the 128-bit values, so that byLeading0 - uLeading0 does not underflow; and
\* when quorem128bin or quo128bin is then run, its loop ends after exactly
\* leadingZeros(by) - leadingZeros(a) + 1 iterations.
C24_BinaryLoopCount ==
    (op \in {"U128.QuoRem", "U128.Quo"} /\ by # zeroU128
        /\ QuoRemPath(a, by) \in {"by128", "bin"}) =>
        /\ byLeadingZeros(by).all = 2 * LimbBits - Len64(U128Value(by))
        /\ U128_LeadingZeros(a) = 2 * LimbBits - Len64(U128Value(a))
        /\ byLeadingZeros(by).all >= U128_LeadingZeros(a)
        /\ WSub(byLeadingZeros(by).all, U128_LeadingZeros(a))
              = byLeadingZeros(by).all - U128_LeadingZeros(a)
        /\ (op = "U128.QuoRem" /\ QuoRemPath(a, by) = "bin") =>
              quorem128bin(a, by, U128_LeadingZeros(a), byLeadingZeros(by).all).n
                  = BinIterations(a, by)
        /\ (op = "U128.Quo" /\ QuoRemPath(a, by) = "bin") =>
              quo128bin(a, by, U128_LeadingZeros(a), byLeadingZeros(by).all).n
                  = BinIterations(a, by)

\* C24 witness: QuoRem has run binary long division for more than one
\* iteration.
C24_Witness ==
    /\ op = "U128.QuoRem"
    /\ by # zeroU128
    /\ QuoRemPath(a, by) = "bin"
    /\ BinIterations(a, by) > 1
    /\ outcome = "returned"

(***************************************************************************)
(* Multiplication to twice the width *)
(***************************************************************************)

\* The portable mul64to128: the product by half-word digits.
mul64to128(u, v) ==
    LET u1 == BitAnd(u, halfMask)
        v1 == BitAnd(v, halfMask)
        t0 == WMul(u1, v1)
        w3 == BitAnd(t0, halfMask)
        uh == Shr(u, HalfBits)
        t1 == WAdd(WMul(uh, v1), Shr(t0, HalfBits))
        w1 == Shr(t1, HalfBits)
        vh == Shr(v, HalfBits)
        t2 == WAdd(WMul(u1, vh), BitAnd(t1, halfMask))
    IN  [hi |-> WAdd(WAdd(WMul(uh, vh), w1), Shr(t2, HalfBits)),
         lo |-> WAdd(Shl(t2, HalfBits), w3)]

\* addCross without the carry out of lm into (hi, hm).
addCrossNoCarry(p, t) ==
    [hi |-> IF WAdd(p.hm, t.hi) < t.hi THEN WAdd(p.hi, 1) ELSE p.hi,
     hm |-> WAdd(p.hm, t.hi),
     lm |-> WAdd(p.lm, t.lo),
     lo |-> p.lo]

\* lm += tlo; if lm < tlo { hi, hm = U128{hi, hm}.Inc().Raw() };
\* hm += thi; if hm < thi { hi++ }: a cross product t added into (hi, hm, lm).
addCross(p, t) ==
    LET c  == IF WAdd(p.lm, t.lo) < t.lo
              THEN U128_Inc(U128FromRaw(p.hi, p.hm))
              ELSE U128FromRaw(p.hi, p.hm)
        hm == WAdd(c.lo, t.hi)
    IN  [hi |-> IF hm < t.hi THEN WAdd(c.hi, 1) ELSE c.hi,
         hm |-> hm,
         lm |-> WAdd(p.lm, t.lo),
         lo |-> p.lo]

mul128to256(uhi, ulo, vhi, vlo) ==
    addCross(addCross([hi |-> mul64to128(uhi, vhi).hi, hm |-> mul64to128(uhi, vhi).lo,
                       lm |-> mul64to128(ulo, vlo).hi, lo |-> mul64to128(ulo, vlo).lo],
                      mul64to128(uhi, vlo)),
             mul64to128(ulo, vhi))

NextMul ==
    \/ Call1("mul64to128", FALSE, mul64to128(a.lo, by.lo))
    \/ Call1("mul128to256", FALSE, mul128to256(a.hi, a.lo, by.hi, by.lo))

SpecMul == Init /\ [][NextMul]_vars

\* C25: mul128to256 returns limbs (hi, hm, lm, lo), each a 64-bit word, of
\* value hi*2^192 + hm*2^128 + lm*2^64 + lo equal to the exact product
\* (uhi*2^64 + ulo) * (vhi*2^64 + vlo), and mul64to128 returns the exact
\* 128-bit product of its two operands.
C25_MulExact ==
    /\ op = "mul128to256" =>
          /\ {q.hi, q.hm, q.lm, q.lo} \subseteq 0 .. maxUint64
          /\ ((q.hi * Wrap + q.hm) * Wrap + q.lm) * Wrap + q.lo
                = U128Value(a) * U128Value(by)
    /\ op = "mul64to128" =>
          /\ {q.hi, q.lo} \subseteq 0 .. maxUint64
          /\ q.hi * Wrap + q.lo = a.lo * by.lo

\* C25 witness: a product in which the first cross product carries out of lm
\* into an hm that is all ones, so that the carry goes on into hi.
C25_Witness ==
    /\ op = "mul128to256"
    /\ WAdd(mul64to128(a.lo, by.lo).hi, mul64to128(a.hi, by.lo).lo)
          < mul64to128(a.hi, by.lo).lo
    /\ mul64to128(a.hi, by.hi).lo = maxUint64
    /\ q.hi > mul64to128(a.hi, by.hi).hi

\* Bit j of the number x
BitOf(x, j) == (x \div 2^j) % 2

\* What C26 says of the state a call has left.
C26_Returned ==
    /\ (op = "U128.Bit" /\ args[1] \in 0 .. 2 * LimbBits - 1) =>
          (outcome = "returned" /\ q = BitOf(U128Value(a), args[1]))
    /\ (op = "U128.SetBit" /\ args[1] \in 0 .. 2 * LimbBits - 1 /\ args[2] \in {0, 1}) =>
          /\ outcome = "returned"
          /\ U128_Bit(q, args[1]) = [panic |-> FALSE, v |-> args[2]]
          /\ \A j \in (0 .. 2 * LimbBits - 1) \ {args[1]} :
                /\ U128_Bit(q, j) = U128_Bit(a, j)
                /\ BitOf(U128Value(q), j) = BitOf(U128Value(a), j)
          /\ BitOf(U128Value(q), args[1]) = args[2]

\* C26: for every U128 u, every i in [0, 128) and every b in {0, 1},
\* u.SetBit(i, b).Bit(i) = b and every other bit of the result is that of u;
\* Bit(i) is bit i of the value hi*2^64 + lo; and the operand is left as it
\* was by the call.
C26_SetBitFrame == []C26_Returned /\ [][a' = a]_vars

\* C26 witness: SetBit has cleared bit 64, the bottom bit of hi, in a value
\* that has bit 63, the top bit of lo, set.
C26_Witness ==
    /\ op = "U128.SetBit"
    /\ args = <<LimbBits, 0>>
    /\ BitAnd(a.hi, 1) = 1
    /\ BitAnd(a.lo, signBit) # 0
    /\ outcome = "returned"
    /\ q.hi = a.hi - 1
    /\ q.lo = a.lo

(***************************************************************************)
(* quorem128by64 and quo128by64 on every dividend and divisor they are     *)
(* called with: u1 < v, and vLeading0 the leading zeros of v               *)
(***************************************************************************)

\* a is the dividend (u1, u0) and by.lo the divisor v.
InitBy64 ==
    /\ a \in Values
    /\ by \in {U128From64(v) : v \in Limbs}
    /\ op = "none"
    /\ outcome = "none"
    /\ q = zeroU128
    /\ r = zeroU128
    /\ args = <<>>

NextBy64 ==
    \/ /\ a.hi < by.lo
       /\ Call2("quorem128by64",
                quorem128by64(a.hi, a.lo, by.lo, LeadingZeros64(by.lo)))
    \/ /\ a.hi < by.lo
       /\ Call1("quo128by64",
                quo128by64(a.hi, a.lo, by.lo, LeadingZeros64(by.lo)).panic,
                quo128by64(a.hi, a.lo, by.lo, LeadingZeros64(by.lo)).q)

SpecBy64 == InitBy64 /\ [][NextBy64]_vars

\* C27: called with u1 < v and vLeading0 the leading zeros of v, each of the
\* two correction loops of quorem128by64 and of quo128by64 decrements its
\* digit at most twice, and the routine returns the exact quotient, and
\* quorem128by64 the exact remainder, of u1*2^64 + u0 divided by v.
C27_CorrectionsAtMostTwo ==
    /\ op = "quorem128by64" =>
          /\ outcome = "returned"
          /\ q = U128Value(a) \div by.lo
          /\ r = U128Value(a) % by.lo
          /\ quorem128by64(a.hi, a.lo, by.lo, LeadingZeros64(by.lo)).n1 <= 2
          /\ quorem128by64(a.hi, a.lo, by.lo, LeadingZeros64(by.lo)).n2 <= 2
    /\ op = "quo128by64" =>
          /\ outcome = "returned"
          /\ q = U128Value(a) \div by.lo
          /\ quo128by64(a.hi, a.lo, by.lo, LeadingZeros64(by.lo)).n1 <= 2
          /\ quo128by64(a.hi, a.lo, by.lo, LeadingZeros64(by.lo)).n2 <= 2

\* C27 witness: quorem128by64 has returned after a correction loop that
\* decremented its digit twice.
C27_Witness ==
    /\ op = "quorem128by64"
    /\ outcome = "returned"
    /\ 2 \in {quorem128by64(a.hi, a.lo, by.lo, LeadingZeros64(by.lo)).n1,
              quorem128by64(a.hi, a.lo, by.lo, LeadingZeros64(by.lo)).n2}

(***************************************************************************)
(* U256: four limbs (hi, hm, lm, lo) *)
(***************************************************************************)

zeroU256 == [hi |-> 0, hm |-> 0, lm |-> 0, lo |-> 0]

U256_Cmp(u, n) ==
    IF u.hi > n.hi THEN 1
    ELSE IF u.hi < n.hi THEN -1
    ELSE IF u.hm > n.hm THEN 1
    ELSE IF u.hm < n.hm THEN -1
    ELSE IF u.lm > n.lm THEN 1
    ELSE IF u.lm < n.lm THEN -1
    ELSE IF u.lo > n.lo THEN 1
    ELSE IF u.lo < n.lo THEN -1
    ELSE 0

U256_Dec(u) ==
    LET lo == WSub(u.lo, 1)
        lm == IF u.lo < lo THEN WSub(u.lm, 1) ELSE u.lm
        hm == IF u.lm < lm THEN WSub(u.hm, 1) ELSE u.hm
    IN  [hi |-> IF u.hm < hm THEN WSub(u.hi, 1) ELSE u.hi,
         hm |-> hm, lm |-> lm, lo |-> lo]

U256_And(u, n) ==
    [hi |-> BitAnd(u.hi, n.hi), hm |-> BitAnd(u.hm, n.hm),
     lm |-> BitAnd(u.lm, n.lm), lo |-> BitAnd(u.lo, n.lo)]

U256_LeadingZeros(u) ==
    IF u.hi # 0 THEN LeadingZeros64(u.hi)
    ELSE IF u.hm # 0 THEN LeadingZeros64(u.hm) + LimbBits
    ELSE IF u.lm # 0 THEN LeadingZeros64(u.lm) + 2 * LimbBits
    ELSE IF u.lo # 0 THEN LeadingZeros64(u.lo) + 3 * LimbBits
    ELSE 4 * LimbBits

U256_TrailingZeros(u) ==
    IF u.lo # 0 THEN TrailingZeros64(u.lo)
    ELSE IF u.lm # 0 THEN LeadingZeros64(u.lm) + LimbBits
    ELSE IF u.hm # 0 THEN LeadingZeros64(u.hm) + 2 * LimbBits
    ELSE IF u.hi # 0 THEN LeadingZeros64(u.hi) + 3 * LimbBits
    ELSE 4 * LimbBits

U256_Lsh(u, n) ==
    IF n = 0 THEN u
    ELSE IF n < LimbBits
    THEN [hi |-> BitOr(Shl(u.hi, n), Shr(u.hm, LimbBits - n)),
          hm |-> BitOr(Shl(u.hm, n), Shr(u.lm, LimbBits - n)),
          lm |-> BitOr(Shl(u.lm, n), Shr(u.lo, LimbBits - n)),
          lo |-> Shl(u.lo, n)]
    ELSE IF n = LimbBits THEN [hi |-> u.hm, hm |-> u.lm, lm |-> u.lo, lo |-> 0]
    ELSE IF n < 2 * LimbBits
    THEN [hi |-> BitOr(Shl(u.hm, n - LimbBits), Shr(u.lm, 2 * LimbBits - n)),
          hm |-> BitOr(Shl(u.lm, n - LimbBits), Shr(u.lo, 2 * LimbBits - n)),
          lm |-> Shl(u.lo, n - LimbBits),
          lo |-> 0]
    ELSE IF n = 2 * LimbBits THEN [hi |-> u.lm, hm |-> u.lo, lm |-> 0, lo |-> 0]
    ELSE IF n < 3 * LimbBits
    THEN [hi |-> BitOr(Shl(u.lm, n - 2 * LimbBits), Shr(u.lo, 3 * LimbBits - n)),
          hm |-> Shl(u.lo, n - 2 * LimbBits),
          lm |-> 0,
          lo |-> 0]
    ELSE IF n = 3 * LimbBits THEN [hi |-> u.lo, hm |-> 0, lm |-> 0, lo |-> 0]
    ELSE IF n < 4 * LimbBits
    THEN [hi |-> Shl(u.lo, n - 3 * LimbBits), hm |-> 0, lm |-> 0, lo |-> 0]
    ELSE zeroU256

U256_Rsh(u, n) ==
    IF n = 0 THEN u
    ELSE IF n < LimbBits
    THEN [hi |-> Shr(u.hi, n),
          hm |-> BitOr(Shr(u.hm, n), Shl(u.hi, LimbBits - n)),
          lm |-> BitOr(Shr(u.lm, n), Shl(u.hm, LimbBits - n)),
          lo |-> BitOr(Shr(u.lo, n), Shl(u.lm, LimbBits - n))]
    ELSE IF n = LimbBits THEN [hi |-> 0, hm |-> u.hi, lm |-> u.hm, lo |-> u.lm]
    ELSE IF n < 2 * LimbBits
    THEN [hi |-> 0,
          hm |-> Shr(u.hi, n - LimbBits),
          lm |-> BitOr(Shr(u.hm, n - LimbBits), Shl(u.hi, 2 * LimbBits - n)),
          lo |-> BitOr(Shr(u.lm, n - LimbBits), Shl(u.hm, 2 * LimbBits - n))]
    ELSE IF n = 2 * LimbBits THEN [hi |-> 0, hm |-> 0, lm |-> u.hi, lo |-> u.hm]
    ELSE IF n < 3 * LimbBits
    THEN [hi |-> 0,
          hm |-> 0,
          lm |-> Shr(u.hi, n - 2 * LimbBits),
          lo |-> BitOr(Shr(u.hm, n - 2 * LimbBits), Shl(u.hi, 3 * LimbBits - n))]
    ELSE IF n = 3 * LimbBits THEN [hi |-> 0, hm |-> 0, lm |-> 0, lo |-> u.hi]
    ELSE IF n < 4 * LimbBits
    THEN [hi |-> 0, hm |-> 0, lm |-> 0, lo |-> Shr(u.hi, n - 3 * LimbBits)]
    ELSE zeroU256

\* Each limb of u is decremented, before its own subtraction, when the limb
\* below came out larger than it went in.
U256_Sub(u, n) ==
    LET lo  == WSub(u.lo, n.lo)
        ulm == IF u.lo < lo THEN WSub(u.lm, 1) ELSE u.lm
        lm  == WSub(ulm, n.lm)
        uhm == IF ulm < lm THEN WSub(u.hm, 1) ELSE u.hm
        hm  == WSub(uhm, n.hm)
        uhi == IF uhm < hm THEN WSub(u.hi, 1) ELSE u.hi
    IN  [hi |-> WSub(uhi, n.hi), hm |-> hm, lm |-> lm, lo |-> lo]

\* The loop of quorem256bin
RECURSIVE quorem256binLoop(_, _, _, _)
quorem256binLoop(qq, u, d, shift) ==
    LET ge == U256_Cmp(u, d) >= 0
        u2 == IF ge THEN U256_Sub(u, d) ELSE u
        q2 == IF ge THEN [U256_Lsh(qq, 1) EXCEPT !.lo = BitOr(@, 1)]
              ELSE U256_Lsh(qq, 1)
    IN  IF shift <= 0
        THEN Returned(q2, u2)
        ELSE quorem256binLoop(q2, u2, U256_Rsh(d, 1), shift - 1)

\* shift := int(byLeading0 - uLeading0); by = by.Lsh(uint(shift)).  The counts
\* are at most 256, far inside an int, so the uint difference read as an int
\* is the difference itself, and a negative one taken as a uint again is a
\* count of 256 and more.
quorem256bin(u, d, uLeading0, byLeading0) ==
    quorem256binLoop(zeroU256, u,
                     U256_Lsh(d, IF byLeading0 < uLeading0 THEN 4 * LimbBits
                                 ELSE byLeading0 - uLeading0),
                     byLeading0 - uLeading0)

U256_QuoRem(u, d) ==
    IF d.hi = 0 /\ d.hm = 0 /\ d.lm = 0 /\ d.lo = 0 THEN Panicked
    ELSE IF U256_LeadingZeros(d) = 4 * LimbBits - 1 THEN Returned(u, zeroU256)
    ELSE IF U256_LeadingZeros(d) + U256_TrailingZeros(d) = 4 * LimbBits - 1
         THEN Returned(U256_Rsh(u, U256_TrailingZeros(d)), U256_And(U256_Dec(d), u))
    ELSE IF U256_Cmp(u, d) < 0 THEN Returned(zeroU256, u)
    ELSE IF U256_Cmp(u, d) = 0
         THEN Returned([zeroU256 EXCEPT !.lo = 1], zeroU256)
    ELSE quorem256bin(u, d, U256_LeadingZeros(u), U256_LeadingZeros(d))

\* The limbs of the U256 operands: zero, one, the top bit, all ones and one
\* word of mixed bits.
Limbs256 == {0, 1, signBit + 2, signBit, maxUint64}

Values256 == [hi : Limbs256, hm : Limbs256, lm : Limbs256, lo : Limbs256]

InitU256 ==
    /\ a \in Values256
    /\ by \in Values256
    /\ op = "none"
    /\ outcome = "none"
    /\ q = zeroU256
    /\ r = zeroU256
    /\ args = <<>>

NextU256 ==
    \/ Call1("U256.Sub", FALSE, U256_Sub(a, by))
    \/ Call2("U256.QuoRem", U256_QuoRem(a, by))
    \/ Call1("U256.TrailingZeros", FALSE, U256_TrailingZeros(a))

SpecU256 == InitU256 /\ [][NextU256]_vars

\* hi*2^192 + hm*2^128 + lm*2^64 + lo
U256Value(u) == ((u.hi * Wrap + u.hm) * Wrap + u.lm) * Wrap + u.lo

\* 2^256
Wrap256 == Wrap * Wrap * Wrap * Wrap

\* C28: for all U256 a and n, a.Sub(n) is (a - n) mod 2^256, a borrow out of a
\* limb going into the next higher limb also when that limb of a is zero.
C28_SubWraps ==
    op = "U256.Sub" => U256Value(q) = (U256Value(a) - U256Value(by)) % Wrap256

\* C29: for every U256 u and every by # 0, u.QuoRem(by) returns (q, r) with
\* u = by*q + r and 0 <= r < by on every path, and for by = 0 it panics.
\* The pair (q, r) with u = by*q + r and 0 <= r < by is unique: it is
\* (u \div by, u % by), which is how the two conditions are written here.
C29_QuoRem256Exact ==
    op = "U256.QuoRem" =>
        IF by = zeroU256 THEN outcome = "panic"
        ELSE /\ outcome = "returned"
             /\ U256Value(q) = U256Value(a) \div U256Value(by)
             /\ U256Value(r) = U256Value(a) % U256Value(by)
             /\ U256Value(r) < U256Value(by)

\* The zero bits below the lowest one bit of x > 0
RECURSIVE TrailingZerosOf(_)
TrailingZerosOf(x) == IF x % 2 = 1 THEN 0 ELSE 1 + TrailingZerosOf(x \div 2)

\* C30: u.TrailingZeros() is the number of zero bits below the lowest one bit
\* of the 256-bit value, whichever limb holds it, and 256 for u = 0; for
\* u # 0, u.Rsh(u.TrailingZeros()) is odd.
C30_TrailingZeros256 ==
    op = "U256.TrailingZeros" =>
        IF a = zeroU256 THEN q = 4 * LimbBits
        ELSE /\ q = TrailingZerosOf(U256Value(a))
             /\ U256_Rsh(a, q).lo % 2 = 1

=============================================================================
